---- MODULE Spec2Model ----
(***************************************************************************)
(* Population-density grid engine and school-site recommendation pipeline  *)
(* of building_optimizer (grid_service.py, ai_recommendations_service.py,  *)
(* views.py).                                                              *)
(*                                                                         *)
(* Units.  Coordinates are integers in hectometres (0.1 km) on a plane;    *)
(* a grid step (GRID_SIZE_LAT / GRID_SIZE_LNG, about 500 m) is 5 units.    *)
(* Distances are compared through their squares (Dist2, in hm^2), so that  *)
(* "dist < 0.6 km" is Dist2 < 36.  Rounded kilometre values               *)
(* (nearest_school_km = round(dist, 2)) are integers in hundredths of a    *)
(* kilometre.  Python's int() is truncation toward zero (Trunc).  The        *)
(* calibration is computed in IEEE-754 doubles; the other float products   *)
(* are exact on the inputs modelled.                                       *)
(***************************************************************************)
EXTENDS Integers, Sequences, FiniteSets, TLC

VARIABLES
    est_pc,        \* position of the per-record estimator run
    est_in,        \* the building record under estimation
    grid_triple,   \* (category, levels, population) at the grid call site
    view_triple,   \* (category, levels, population) at the cached-list call site
    g_pc,          \* position inside get_enhanced_heatmap_data / create_population_grid
    buildings,     \* the building list passed to create_population_grid
    districts,     \* the districts argument (None, or a list of districts)
    bidx,          \* number of buildings the loop has processed
    grid,          \* the dict grid, as its items in insertion order
    stats,         \* the stats dict
    lookup_log,    \* keys of the cells for which _find_nearest_district ran
    grid_cells,    \* the returned cell list
    total_population,      \* the returned total (calibrated_total)
    districts_population,  \* the returned per-district totals
    all_buildings_cached,  \* the view's cached building list
    r_pc,          \* position inside the recommendation pipeline
    grid_data,     \* grid_data['grid_cells'] given to prepare_analysis_data
    schools,       \* the school roster
    restricted_zones,      \* the restricted zones (None, or a list)
    ml_forecast,   \* the ML forecast (None, or base and future population)
    district_filter,       \* the district filter (None, or a string)
    growth_factor, \* analysis_data['growth_factor'], in hundredths
    high_density_cells,    \* analysis_data['high_density_cells']
    cells_without_schools, \* analysis_data['cells_without_schools'], which
                           \* generate_recommendations aliases as candidate_cells
    far_cells,     \* the cells prepare_analysis_data found farther than 0.8 km
    used_fallback, \* whether the selector fell back to the unfiltered cells
    scored_cells,  \* the scored candidates, sorted
    sidx,          \* number of scored cells the greedy loop has visited
    selected,      \* the greedy loop's selection so far
    base_recommendations,  \* the selector's result
    ai_reply,      \* what the text layer did
    response,      \* the value generate_recommendations returned
    sch_pc,        \* position inside ai_school_recommendations' roster pass
    school,        \* the stored School row
    school_entry,  \* the roster entry the view built from the row
    districts_stats,       \* the row's district entry of districts_stats
    prev_school,   \* the School row as it was at the previous request
    prev_entry,   \* the roster entry of the previous request
    requests,      \* number of requests served
    look_pc,       \* position of the stand-alone district lookup
    look_point,    \* the (lat, lng) looked up
    look_districts,        \* the district list looked up in
    look_result    \* what _find_nearest_district returned

estVars == <<est_pc, est_in, grid_triple, view_triple>>
gridVars == <<g_pc, buildings, districts, bidx, grid, stats, lookup_log,
              grid_cells, total_population, districts_population,
              all_buildings_cached>>
recVars == <<r_pc, grid_data, schools, restricted_zones, ml_forecast,
             district_filter, growth_factor, high_density_cells,
             cells_without_schools, far_cells, used_fallback, scored_cells,
             sidx, selected, base_recommendations, ai_reply, response>>
schVars == <<sch_pc, school, school_entry, districts_stats, prev_school,
             prev_entry, requests>>
lookVars == <<look_pc, look_point, look_districts, look_result>>
vars == <<estVars, gridVars, recVars, schVars, lookVars>>

\* ------------------------------------------------------------------------
\* Optional values: <<>> is None / an absent key, <<x>> is the value x.
\* ------------------------------------------------------------------------
NoneV == <<>>
Some(x) == <<x>>
IsNone(o) == Len(o) = 0
Val(o) == o[1]
GetOr(o, dflt) == IF IsNone(o) THEN dflt ELSE Val(o)

Max2(a, b) == IF a >= b THEN a ELSE b
Min2(a, b) == IF a <= b THEN a ELSE b

\* Python int(): truncation toward zero of the rational num / den, den > 0.
Trunc(num, den) == IF num >= 0 THEN num \div den ELSE -((-num) \div den)

\* ------------------------------------------------------------------------
\* Free-text names: sequences of characters; str.lower() and `word in name`.
\* ------------------------------------------------------------------------
LowerChar(c) ==
    CASE c = "E" -> "e"
      [] c = "L" -> "l"
      [] c = "I" -> "i"
      [] c = "T" -> "t"
      [] c = "A" -> "a"
      [] c = "B" -> "b"
      [] c = "W" -> "w"
      [] c = "S" -> "s"
      [] OTHER -> c

Lower(s) == [i \in 1..Len(s) |-> LowerChar(s[i])]

IsSubstr(w, s) ==
    \E k \in 0..(Len(s) - Len(w)) : \A i \in 1..Len(w) : s[k + i] = w[i]

\* The luxury keywords of calculate_building_population, transliterated.
LuxuryWords ==
    { <<"e","l","i","t">>, <<"p","r","e","m","i","u","m">>, <<"l","u","x">>,
      <<"b","i","z","n","e","s">>, <<"r","e","z","i","d","e","n","s">>,
      <<"k","o","m","f","o","r","t">> }

HasLuxuryWord(name) == \E w \in LuxuryWords : IsSubstr(w, name)

\* ------------------------------------------------------------------------
\* GridService.calculate_building_population
\* ------------------------------------------------------------------------
K_USEFUL_AREA_PCT == 72
MIN_BUILDING_POP == 2
MAX_BUILDING_POP == 800

\* The inference with every breakpoint inclusive (>= and <=).
InferLevels_Inclusive(building_type, area_m2) ==
    IF building_type = "apartments"
    THEN IF area_m2 >= 1500 THEN 12
         ELSE IF area_m2 >= 800 THEN 9
         ELSE IF area_m2 >= 400 THEN 5
         ELSE 4
    ELSE IF building_type \in {"house", "residential"}
    THEN IF area_m2 >= 200 THEN 2 ELSE 1
    ELSE IF area_m2 <= 200 THEN 1
         ELSE IF area_m2 <= 400 THEN 2
         ELSE 4

\* Step 1: floors inferred from type and footprint when levels is None.
InferLevels(building_type, area_m2) ==
    IF building_type = "apartments"
    THEN IF area_m2 > 1500 THEN 12
         ELSE IF area_m2 > 800 THEN 9
         ELSE IF area_m2 > 400 THEN 5
         ELSE 4
    ELSE IF building_type \in {"house", "residential"}
    THEN IF area_m2 > 200 THEN 2 ELSE 1
    ELSE IF area_m2 < 200 THEN 1
         ELSE IF area_m2 < 400 THEN 2
         ELSE 4

ResolveLevels(building_type, levels, area_m2) ==
    IF IsNone(levels) THEN InferLevels(building_type, area_m2) ELSE Val(levels)

PrivatePopulation(area_m2) ==
    IF area_m2 < 60 THEN 3
    ELSE IF area_m2 < 100 THEN 4
    ELSE IF area_m2 < 150 THEN 5
    ELSE IF area_m2 < 250 THEN 6
    ELSE 7

MultiFloorCategory(lv, name) ==
    IF HasLuxuryWord(name) THEN "elite"
    ELSE IF lv >= 12 THEN "high_rise"
    ELSE IF lv >= 9 THEN "soviet_high"
    ELSE IF lv >= 6 THEN "mid_rise"
    ELSE IF lv >= 4 THEN "soviet"
    ELSE "low_rise"

SqmPerPerson(category) ==
    CASE category = "elite" -> 30
      [] category = "high_rise" -> 24
      [] category = "low_rise" -> 24
      [] OTHER -> 22

\* The clamp without its ceiling: max(2, population).
ClampPopulation_NoCeiling(population) == Max2(MIN_BUILDING_POP, population)

ClampPopulation(population) ==
    Max2(MIN_BUILDING_POP, Min2(population, MAX_BUILDING_POP))

\* tags is the optional tag map reduced to its 'name' entry (<<>> when the
\* map is None or has no name).
calculate_building_population(building_type, levels, area_m2, tags) ==
    LET lv == ResolveLevels(building_type, levels, area_m2)
        name == Lower(GetOr(tags, <<>>))
    IN  IF lv <= 2
        THEN [category |-> "private", levels |-> lv,
              population |-> ClampPopulation(PrivatePopulation(area_m2))]
        ELSE LET cat == MultiFloorCategory(lv, name)
                 pop == Trunc(area_m2 * lv * K_USEFUL_AREA_PCT,
                              100 * SqmPerPerson(cat))
             IN  [category |-> cat, levels |-> lv,
                  population |-> ClampPopulation(pop)]

\* ------------------------------------------------------------------------
\* The two call sites: parsing of the record's 'levels' and the defaults.
\* A record's levels entry is [kind, val]:
\*   "none" absent or None;  "int" the integer val;  "str" the decimal
\*   string of val tenths ("2.7" is val 27);  "bad" an unparseable string;
\*   "inf" the string "inf" (float() accepts it, int() raises OverflowError).
\* ------------------------------------------------------------------------
Truthy(lv) ==
    CASE lv.kind = "none" -> FALSE
      [] lv.kind = "int" -> lv.val # 0
      [] OTHER -> TRUE

\* int(float(levels_str)); "ValueError", "OverflowError" name the exception.
IntOfFloat(lv) ==
    CASE lv.kind = "int" -> [ok |-> TRUE, val |-> lv.val, exc |-> ""]
      [] lv.kind = "str" -> [ok |-> TRUE, val |-> Trunc(lv.val, 10), exc |-> ""]
      [] lv.kind = "inf" -> [ok |-> FALSE, val |-> 0, exc |-> "OverflowError"]
      [] OTHER -> [ok |-> FALSE, val |-> 0, exc |-> "ValueError"]

RaisedTriple == [category |-> "raised", levels |-> 0, population |-> 0]

\* create_population_grid, lines 211-227: except (ValueError, TypeError).
GridSiteTriple(b) ==
    LET building_type == GetOr(b.building_type, "yes")
        area_m2 == GetOr(b.area_m2, 100)
        parsed == IntOfFloat(b.levels)
    IN  IF Truthy(b.levels) /\ ~parsed.ok /\ parsed.exc = "OverflowError"
        THEN RaisedTriple
        ELSE calculate_building_population(
                 building_type,
                 IF Truthy(b.levels) /\ parsed.ok THEN Some(parsed.val) ELSE NoneV,
                 area_m2, b.tags)

\* get_enhanced_heatmap_data, lines 159-174 (and get_buildings_in_viewport,
\* lines 566-581): bare except.
ViewSiteTriple(b) ==
    LET building_type == GetOr(b.building_type, "residential")
        area_m2 == GetOr(b.area_m2, 100)
        parsed == IntOfFloat(b.levels)
    IN  calculate_building_population(
            building_type,
            IF Truthy(b.levels) /\ parsed.ok THEN Some(parsed.val) ELSE NoneV,
            area_m2, b.tags)

\* ------------------------------------------------------------------------
\* Bounded inputs of the estimator
\* ------------------------------------------------------------------------
BuildingTypes == {"apartments", "house", "residential", "dormitory", "yes"}

AreaValues ==
    {0, 59, 60, 99, 100, 120, 149, 150, 199, 200, 201, 249, 250, 399, 400,
     401, 800, 801, 1000, 1500, 1501, 9000}

MaxLevels == 13

LevelEntries ==
    {[kind |-> "none", val |-> 0], [kind |-> "bad", val |-> 0],
     [kind |-> "inf", val |-> 0]}
    \cup {[kind |-> "int", val |-> v] : v \in (-1)..MaxLevels}
    \cup {[kind |-> "str", val |-> v] : v \in {-10, 0, 9, 27, 30, 120, 400}}

TagNames ==
    { NoneV, Some(<<"d","o","m">>), Some(<<"E","l","i","t","a">>),
      Some(<<"z","h","k"," ","l","u","x">>) }

EstRecords ==
    [building_type : {NoneV} \cup {Some(t) : t \in BuildingTypes},
     levels : LevelEntries,
     area_m2 : {NoneV} \cup {Some(a) : a \in AreaValues},
     tags : TagNames]

NoTriple == [category |-> "", levels |-> 0, population |-> 0]

EstIdle ==
    /\ est_pc = "idle"
    /\ est_in = NoneV
    /\ grid_triple = NoTriple
    /\ view_triple = NoTriple

EstStart ==
    /\ est_pc = "input"
    /\ est_in \in EstRecords
    /\ grid_triple = NoTriple
    /\ view_triple = NoTriple

\* The estimator call inside create_population_grid's building loop.
EstimateInGrid ==
    /\ est_pc = "input"
    /\ grid_triple' = GridSiteTriple(est_in)
    /\ est_pc' = IF grid_triple'.category = "raised" THEN "raised" ELSE "grid"
    /\ UNCHANGED <<est_in, view_triple>>
    /\ UNCHANGED <<gridVars, recVars, schVars, lookVars>>

\* The estimator call of the cached building list, after the grid is built.
EstimateInView ==
    /\ est_pc = "grid"
    /\ view_triple' = ViewSiteTriple(est_in)
    /\ est_pc' = "done"
    /\ UNCHANGED <<est_in, grid_triple>>
    /\ UNCHANGED <<gridVars, recVars, schVars, lookVars>>


\* ------------------------------------------------------------------------
\* Geometry (GridService._haversine_distance, _point_in_polygon,
\* _point_in_district, _find_nearest_district)
\* ------------------------------------------------------------------------
GRID_STEP == 5

\* Squared distance in hm^2 between (lat1, lng1) and (lat2, lng2).
Dist2(lat1, lng1, lat2, lng2) ==
    (lat1 - lat2) * (lat1 - lat2) + (lng1 - lng2) * (lng1 - lng2)

\* round(x / GRID_SIZE) * GRID_SIZE for integer x (no ties occur: 5 is odd).
Quantize(x) == ((x + 2) \div GRID_STEP) * GRID_STEP

\* The key taken from the raw coordinates.
GridKey_Unquantized(lat, lng) == <<lat, lng>>

GridKey(lat, lng) == <<Quantize(lat), Quantize(lng)>>

\* One edge of the ray cast: ((yi > lng) != (yj > lng)) and
\* (lat < (xj - xi) * (lng - yi) / (yj - yi) + xi), cross-multiplied.
EdgeCrosses(lat, lng, pi, pj) ==
    LET xi == pi[1]
        yi == pi[2]
        xj == pj[1]
        yj == pj[2]
        dy == yj - yi
        num == (xj - xi) * (lng - yi)
    IN  /\ (yi > lng) # (yj > lng)
        /\ IF dy > 0 THEN (lat - xi) * dy < num ELSE (lat - xi) * dy > num

_point_in_polygon(lat, lng, polygon) ==
    IF Len(polygon) < 3 THEN FALSE
    ELSE LET n == Len(polygon)
             prev(i) == IF i = 1 THEN n ELSE i - 1
             crossings == {i \in 1..n :
                             EdgeCrosses(lat, lng, polygon[i], polygon[prev(i)])}
         IN  Cardinality(crossings) % 2 = 1

DISTRICT_RADIUS2 == 625
NEAREST_CUTOFF2 == 2500

\* The polygon test alone, without the distance test for a district that
\* has no geometry.
_point_in_district_PolygonOnly(lat, lng, district) ==
    \E k \in 1..Len(district.geometry) :
        _point_in_polygon(lat, lng, district.geometry[k])

_point_in_district(lat, lng, district) ==
    IF Len(district.geometry) = 0
    THEN Dist2(lat, lng, district.lat, district.lng) <= DISTRICT_RADIUS2
    ELSE \E k \in 1..Len(district.geometry) :
            _point_in_polygon(lat, lng, district.geometry[k])

\* The loop of _find_nearest_district over ds from index i, carrying
\* min_distance (squared; -1 is float('inf')) and nearest_district.
RECURSIVE NearestFrom(_, _, _, _, _, _)
NearestFrom(lat, lng, ds, i, min_d2, nearest) ==
    IF i > Len(ds)
    THEN IF min_d2 >= 0 /\ min_d2 <= NEAREST_CUTOFF2 THEN nearest ELSE NoneV
    ELSE IF _point_in_district(lat, lng, ds[i])
    THEN Some(ds[i].name)
    ELSE LET d2 == Dist2(lat, lng, ds[i].lat, ds[i].lng)
         IN  IF min_d2 < 0 \/ d2 < min_d2
             THEN NearestFrom(lat, lng, ds, i + 1, d2, Some(ds[i].name))
             ELSE NearestFrom(lat, lng, ds, i + 1, min_d2, nearest)

_find_nearest_district(lat, lng, ds) ==
    IF Len(ds) = 0 THEN NoneV ELSE NearestFrom(lat, lng, ds, 1, -1, NoneV)

\* `if districts:` is false for None and for the empty list.
DistrictList(d) == GetOr(d, <<>>)
HasDistricts(d) == Len(DistrictList(d)) > 0

\* ------------------------------------------------------------------------
\* Sequence helpers
\* ------------------------------------------------------------------------
RECURSIVE SumRange(_, _, _)
SumRange(s, lo, hi) ==
    IF lo > hi THEN 0
    ELSE IF lo = hi THEN s[lo]
    ELSE LET mid == (lo + hi) \div 2
         IN  SumRange(s, lo, mid) + SumRange(s, mid + 1, hi)

SumSeq(s) == SumRange(s, 1, Len(s))

\* The elements of s that satisfy Keep, in their order in s.
FilterSeq(s, Keep(_)) ==
    LET kept == {i \in 1..Len(s) : Keep(s[i])}
        Nth(k) == CHOOSE i \in kept : Cardinality({j \in kept : j <= i}) = k
    IN  [k \in 1..Cardinality(kept) |-> s[Nth(k)]]

\* list.sort(key=..., reverse=True) and sort(key=lambda x: -key): stable,
\* descending; Before(a, b) is "a's key is strictly greater than b's".
\* An element lands behind every element with a greater key and behind the
\* earlier elements with an equal key.
SortStable(s, Before(_, _)) ==
    LET Ahead(i) == {j \in 1..Len(s) :
                        \/ Before(s[j], s[i])
                        \/ j < i /\ ~Before(s[i], s[j])}
        At(k) == CHOOSE i \in 1..Len(s) : Cardinality(Ahead(i)) = k - 1
    IN  [k \in 1..Len(s) |-> s[At(k)]]

Prefix(s, n) == SubSeq(s, 1, Min2(n, Len(s)))

\* ------------------------------------------------------------------------
\* Exact arithmetic for the score: naturals as little-endian limbs in base
\* LIMB, so that products beyond 2^31 can be formed and compared; the
\* comparisons do not depend on the base.
\* ------------------------------------------------------------------------
LIMB == 10000

RECURSIVE BigMulCarry(_, _, _)
BigMulCarry(x, m, carry) ==
    IF Len(x) = 0
    THEN IF carry = 0 THEN <<>>
         ELSE <<carry % LIMB>> \o BigMulCarry(<<>>, m, carry \div LIMB)
    ELSE LET v == (Head(x) * m) + carry
         IN  <<v % LIMB>> \o BigMulCarry(Tail(x), m, v \div LIMB)

\* x * m for a natural m below 200000.
BigMul(x, m) == BigMulCarry(x, m, 0)

RECURSIVE BigNorm(_)
BigNorm(x) ==
    IF Len(x) > 0 /\ x[Len(x)] = 0 THEN BigNorm(SubSeq(x, 1, Len(x) - 1)) ELSE x

RECURSIVE BigLessSame(_, _)
BigLessSame(x, y) ==
    IF Len(x) = 0 THEN FALSE
    ELSE IF x[Len(x)] # y[Len(y)] THEN x[Len(x)] < y[Len(y)]
    ELSE BigLessSame(SubSeq(x, 1, Len(x) - 1), SubSeq(y, 1, Len(y) - 1))

BigLess(x, y) ==
    LET a == BigNorm(x)
        b == BigNorm(y)
    IN  IF Len(a) # Len(b) THEN Len(a) < Len(b) ELSE BigLessSame(a, b)

\* floor(sqrt(n)) by bisection, for n below 2^31.
RECURSIVE SqrtSearch(_, _, _)
SqrtSearch(n, lo, hi) ==
    IF lo = hi THEN lo
    ELSE LET mid == (lo + hi + 1) \div 2
         IN  IF mid * mid <= n THEN SqrtSearch(n, mid, hi)
             ELSE SqrtSearch(n, lo, mid - 1)

ISqrt(n) == SqrtSearch(n, 0, Min2(n, 46340))

\* round(dist, 2) in hundredths of a km, for a squared distance in hm^2:
\* round(10 * sqrt(d2)) = floor((floor(20 * sqrt(d2)) + 1) / 2).
RoundKm2(d2) == (ISqrt(400 * d2) + 1) \div 2

\* ------------------------------------------------------------------------
\* IEEE-754 double arithmetic for the calibration: a positive double is
\* m * 2^(-e) with a 53-bit significand m; division and multiplication
\* round to nearest, ties to even; int() truncates.
\* ------------------------------------------------------------------------
RECURSIVE BigAddSmall(_, _)
BigAddSmall(x, c) ==
    IF c = 0 THEN x
    ELSE IF Len(x) = 0 THEN <<c>>
    ELSE LET v == Head(x) + c
         IN  <<v % LIMB>> \o BigAddSmall(Tail(x), v \div LIMB)

\* Quotient and remainder of x by a natural d below 200000.
RECURSIVE BigDivRem(_, _)
BigDivRem(x, d) ==
    IF Len(x) = 0 THEN [q |-> <<>>, r |-> 0]
    ELSE LET hi == BigDivRem(Tail(x), d)
             cur == (hi.r * LIMB) + Head(x)
         IN  [q |-> <<cur \div d>> \o hi.q, r |-> cur % d]

\* x / d rounded to the nearest natural, ties to even.
BigRoundDiv(x, d) ==
    LET dr == BigDivRem(x, d)
        odd == BigDivRem(dr.q, 2).r = 1
    IN  IF 2 * dr.r > d \/ (2 * dr.r = d /\ odd)
        THEN BigAddSmall(dr.q, 1) ELSE dr.q

RECURSIVE BigPow2(_)
BigPow2(n) ==
    IF n <= 16 THEN BigMul(<<1>>, 2^n) ELSE BigMul(BigPow2(n - 16), 2^16)

\* floor(x / 2^n).
RECURSIVE BigShiftRight(_, _)
BigShiftRight(x, n) ==
    IF n = 0 THEN x
    ELSE LET c == Min2(n, 16)
         IN  BigShiftRight(BigDivRem(x, 2^c).q, n - c)

RECURSIVE BigToInt(_)
BigToInt(x) == IF Len(x) = 0 THEN 0 ELSE Head(x) + (LIMB * BigToInt(Tail(x)))

\* The number of bits by which x exceeds 53 bits, for x below 2^83.
ExcessBits(x) ==
    LET top == BigToInt(BigShiftRight(x, 53))
    IN  CHOOSE n \in 0..30 : top < 2^n /\ (n = 0 \/ top >= 2^(n - 1))

\* ------------------------------------------------------------------------
\* GridService.create_population_grid
\* ------------------------------------------------------------------------
TOTAL_TARGET_POPULATION == 1350000
THRESHOLD_GREEN == 1500
THRESHOLD_YELLOW == 6000
THRESHOLD_ORANGE == 10000
THRESHOLD_RED == 20000

\* The colour band of a real cell (lines 308-323).
DensityColor(density) ==
    IF density < THRESHOLD_GREEN THEN "green"
    ELSE IF density < THRESHOLD_YELLOW THEN "yellow"
    ELSE IF density < THRESHOLD_ORANGE THEN "orange"
    ELSE IF density < THRESHOLD_RED THEN "red"
    ELSE "purple"

\* The colour band of an interpolated cell (lines 408-414).
InterpolatedColor(density) ==
    IF density < THRESHOLD_GREEN THEN "green"
    ELSE IF density < THRESHOLD_YELLOW THEN "yellow"
    ELSE "orange"

IndexOfKey(g, key) ==
    IF \E i \in 1..Len(g) : g[i].key = key
    THEN CHOOSE i \in 1..Len(g) : g[i].key = key
    ELSE 0

NewCell(key) ==
    [key |-> key, population |-> 0, buildings_count |-> 0, total_levels |-> 0,
     total_area |-> 0, categories |-> <<>>, with_levels_data |-> 0,
     district |-> NoneV]

\* categories[category] = categories.get(category, 0) + 1, insertion-ordered.
BumpCategory(cats, category) ==
    IF \E i \in 1..Len(cats) : cats[i].cat = category
    THEN [i \in 1..Len(cats) |->
            IF cats[i].cat = category
            THEN [cats[i] EXCEPT !.n = @ + 1] ELSE cats[i]]
    ELSE Append(cats, [cat |-> category, n |-> 1])

\* max(categories.items(), key=count)[0]: the first item of maximal count.
DominantCategory(cats) ==
    IF Len(cats) = 0 THEN "unknown"
    ELSE cats[CHOOSE i \in 1..Len(cats) :
                 /\ \A j \in 1..Len(cats) : cats[j].n <= cats[i].n
                 /\ \A j \in 1..(i - 1) : cats[j].n < cats[i].n].cat

\* One pass of the building loop's body on cell c (lines 257-269): the
\* district is looked up with the building's own coordinates while the
\* cell has none.
NeedsLookup(c, d) == HasDistricts(d) /\ IsNone(c.district)

AddBuilding(c, b, t, d) ==
    [c EXCEPT
        !.population = @ + t.population,
        !.buildings_count = @ + 1,
        !.total_levels = @ + t.levels,
        !.total_area = @ + GetOr(b.area_m2, 100),
        !.categories = BumpCategory(@, t.category),
        !.with_levels_data = @ + (IF b.has_levels_data THEN 1 ELSE 0),
        !.district = IF NeedsLookup(c, d)
                     THEN _find_nearest_district(b.lat, b.lng, DistrictList(d))
                     ELSE @]

DistrictNames(d) == {DistrictList(d)[i].name : i \in 1..Len(DistrictList(d))}

\* Calibration by adding the missing population instead of scaling.
Calibrated_Additive(population, raw_total) ==
    IF raw_total > 0
    THEN population + (TOTAL_TARGET_POPULATION - raw_total)
    ELSE population

\* calibration_factor = TOTAL_TARGET_POPULATION / raw_total (lines 280-283)
\* for 0 < raw_total <= TOTAL_TARGET_POPULATION: the double m * 2^(-e).
calibration_factor(raw_total) ==
    LET ratio == TOTAL_TARGET_POPULATION \div raw_total
        a == CHOOSE n \in 0..21 : 2^n <= ratio /\ ratio < 2^(n + 1)
        e == 52 - a
        target == BigMul(BigMul(BigPow2(e), TOTAL_TARGET_POPULATION \div 1000),
                         1000)
    IN  [m |-> BigRoundDiv(target, raw_total), e |-> e]

\* int(cell['population'] * calibration_factor) (line 299); the factor is
\* 1.0 when raw_total is 0.
Calibrated(population, raw_total) ==
    IF raw_total > 0
    THEN LET f == calibration_factor(raw_total)
             product == BigMul(f.m, population)
             s == ExcessBits(product)
             rounded == BigRoundDiv(product, 2^s)
         IN  BigToInt(BigShiftRight(rounded, f.e - s))
    ELSE population

\* int(calibrated_population / GRID_AREA_KM2) with GRID_AREA_KM2 = 0.25.
DensityOf(population) == population * 4

RealCell(c, raw_total) ==
    LET p == Calibrated(c.population, raw_total)
    IN  [lat |-> c.key[1], lng |-> c.key[2], population |-> p,
         density |-> DensityOf(p), buildings_count |-> c.buildings_count,
         dominant_category |-> DominantCategory(c.categories),
         total_levels |-> c.total_levels,
         with_levels_data |-> c.with_levels_data,
         color |-> DensityColor(DensityOf(p)),
         district |-> c.district, interpolated |-> FALSE]

\* Lines 294-344 and 361: the cells with buildings, sorted by -density.
RealCells(g, raw_total) ==
    LET kept == FilterSeq(g, LAMBDA c : c.buildings_count # 0)
        cells == [i \in 1..Len(kept) |-> RealCell(kept[i], raw_total)] \o <<>>
    IN  SortStable(cells, LAMBDA a, b : a.density > b.density)

\* Lines 346-349: per-district totals over the real cells.
\* District totals that credit every district with every real cell.
DistrictTotals_EveryCell(names, cells) ==
    [n \in names |->
        [population |-> SumSeq([i \in 1..Len(cells) |-> cells[i].population]),
         buildings |->
             SumSeq([i \in 1..Len(cells) |-> cells[i].buildings_count])]]

DistrictTotals(names, cells) ==
    [n \in names |->
        LET mine == FilterSeq(cells, LAMBDA c : c.district = Some(n))
        IN  [population |-> SumSeq([i \in 1..Len(mine) |-> mine[i].population]),
             buildings |->
                 SumSeq([i \in 1..Len(mine) |-> mine[i].buildings_count])]]

\* The city's bounding box (min_lat, max_lat, min_lng, max_lng), scaled
\* down: the walk visits MinLat, MinLat + 5, ... up to MaxLat.
MinLat == 1
MaxLat == 7
MinLng == 1
MaxLng == 16

WalkSteps(lo, hi) ==
    IF hi < lo THEN <<>>
    ELSE [i \in 1..(((hi - lo) \div GRID_STEP) + 1) |-> lo + ((i - 1) * GRID_STEP)]

\* The (lat, lng) pairs of the nested while loops, lat outermost.
WalkPoints ==
    LET lats == WalkSteps(MinLat, MaxLat)
        lngs == WalkSteps(MinLng, MaxLng)
    IN  [k \in 1..(Len(lats) * Len(lngs)) |->
            << lats[((k - 1) \div Len(lngs)) + 1], lngs[((k - 1) % Len(lngs)) + 1] >>]

DEFAULT_AVG_DENSITY == 500
MIN_INTERPOLATED_DENSITY == 100

\* The estimate without the default of 500 for a district that has no
\* population: 30% of population / area, at least 100.
EstimatedDensity_NoDefault(dp) ==
    LET raw == Trunc(dp.population * 60, 10 * Max2(dp.buildings, 200))
    IN  IF raw < MIN_INTERPOLATED_DENSITY THEN MIN_INTERPOLATED_DENSITY ELSE raw

\* int(district_avg_density * 0.3) with
\* avg = population / max(buildings * 0.05, 10), or 500 without population.
EstimatedDensity(dp) ==
    LET raw == IF dp.population > 0
               THEN Trunc(dp.population * 60, 10 * Max2(dp.buildings, 200))
               ELSE Trunc(DEFAULT_AVG_DENSITY * 3, 10)
    IN  IF raw < MIN_INTERPOLATED_DENSITY THEN MIN_INTERPOLATED_DENSITY ELSE raw

InterpolatedCell(key, name, dpop) ==
    LET dens == IF name \in DOMAIN dpop
                THEN EstimatedDensity(dpop[name])
                ELSE EstimatedDensity([population |-> 0, buildings |-> 0])
    IN  [lat |-> key[1], lng |-> key[2], population |-> Trunc(dens, 4),
         density |-> dens, buildings_count |-> 0,
         dominant_category |-> "estimated", total_levels |-> 0,
         with_levels_data |-> 0, color |-> InterpolatedColor(dens),
         district |-> Some(name), interpolated |-> TRUE]

\* Lines 384-436: the walk, carrying interpolated_cells and existing_cells.
InterpolatedCells(cells, ds, dpop) ==
    LET pts == WalkPoints
        W[k \in 0..Len(pts)] ==
            IF k = 0
            THEN [out |-> <<>>,
                  existing |-> {<<cells[i].lat, cells[i].lng>> :
                                   i \in 1..Len(cells)}]
            ELSE LET key == GridKey(pts[k][1], pts[k][2])
                     prev == W[k - 1]
                     name == _find_nearest_district(key[1], key[2], ds)
                 IN  IF key \in prev.existing \/ IsNone(name)
                     THEN prev
                     ELSE [out |-> Append(prev.out,
                                       InterpolatedCell(key, Val(name), dpop)),
                           existing |-> prev.existing \cup {key}]
    IN  W[Len(pts)].out

\* ------------------------------------------------------------------------
\* Bounded inputs of the grid builder
\* ------------------------------------------------------------------------
MaxBuildings == 2

BuildingSites == {<<0, 0>>, <<1, 2>>, <<5, 5>>, <<0, 90>>, <<0, 91>>}

BuildingKinds ==
    { [building_type |-> Some("house"), levels |-> [kind |-> "int", val |-> 1],
       area_m2 |-> Some(120), tags |-> NoneV, has_levels_data |-> TRUE],
      [building_type |-> Some("apartments"), levels |-> [kind |-> "none", val |-> 0],
       area_m2 |-> Some(1000), tags |-> NoneV, has_levels_data |-> FALSE],
      [building_type |-> NoneV, levels |-> [kind |-> "none", val |-> 0],
       area_m2 |-> Some(450), tags |-> NoneV, has_levels_data |-> FALSE],
      [building_type |-> Some("apartments"), levels |-> [kind |-> "str", val |-> 0],
       area_m2 |-> Some(500), tags |-> NoneV, has_levels_data |-> TRUE] }

BuildingAt(site, kind) ==
    [lat |-> site[1], lng |-> site[2], building_type |-> kind.building_type,
     levels |-> kind.levels, area_m2 |-> kind.area_m2, tags |-> kind.tags,
     has_levels_data |-> kind.has_levels_data]

BuildingRecords == {BuildingAt(s, k) : s \in BuildingSites, k \in BuildingKinds}

BuildingLists ==
    UNION {[1..n -> BuildingRecords] : n \in 0..MaxBuildings}

\* A district with a boundary ring around the south-west cells, and one
\* known only by its centre.
DistrictWest ==
    [name |-> "west", lat |-> 2, lng |-> 0,
     geometry |-> << << <<-2, -2>>, <<-2, 3>>, <<7, 3>>, <<7, -2>> >> >>]

DistrictEast ==
    [name |-> "east", lat |-> 0, lng |-> 40, geometry |-> <<>>]

DistrictArgs ==
    { NoneV, Some(<<>>), Some(<<DistrictWest>>),
      Some(<<DistrictWest, DistrictEast>>) }

NoStats ==
    [total_buildings |-> 0, total_population |-> 0, with_levels_data |-> 0,
     estimated_levels |-> 0]

GridIdle ==
    /\ g_pc = "idle"
    /\ buildings = <<>>
    /\ districts = NoneV
    /\ bidx = 0
    /\ grid = <<>>
    /\ stats = NoStats
    /\ lookup_log = <<>>
    /\ grid_cells = <<>>
    /\ total_population = 0
    /\ districts_population = <<>>
    /\ all_buildings_cached = <<>>

GridStart ==
    /\ g_pc = "input"
    /\ buildings \in BuildingLists
    /\ districts \in DistrictArgs
    /\ bidx = 0
    /\ grid = <<>>
    /\ stats = NoStats
    /\ lookup_log = <<>>
    /\ grid_cells = <<>>
    /\ total_population = 0
    /\ districts_population = <<>>
    /\ all_buildings_cached = <<>>

\* Lines 179-203: the empty grid, the stats and the per-district entries.
BeginGrid ==
    /\ g_pc = "input"
    /\ g_pc' = "loop"
    /\ districts_population' =
           [n \in DistrictNames(districts) |-> [population |-> 0, buildings |-> 0]]
    /\ UNCHANGED <<buildings, districts, bidx, grid, stats, lookup_log,
                   grid_cells, total_population, all_buildings_cached>>
    /\ UNCHANGED <<estVars, recVars, schVars, lookVars>>

\* Lines 206-274: one iteration of the building loop.
ProcessBuilding ==
    /\ g_pc = "loop"
    /\ bidx < Len(buildings)
    /\ LET b == buildings[bidx + 1]
           t == GridSiteTriple(b)
           key == GridKey(b.lat, b.lng)
           g1 == IF IndexOfKey(grid, key) = 0
                 THEN Append(grid, NewCell(key)) ELSE grid
           k == IndexOfKey(g1, key)
       IN  IF t.category = "raised"
           THEN /\ g_pc' = "raised"
                /\ UNCHANGED <<bidx, grid, stats, lookup_log>>
           ELSE /\ g_pc' = "loop"
                /\ bidx' = bidx + 1
                /\ stats' = [stats EXCEPT
                       !.total_buildings = @ + 1,
                       !.total_population = @ + t.population,
                       !.with_levels_data =
                           @ + (IF b.has_levels_data THEN 1 ELSE 0),
                       !.estimated_levels =
                           @ + (IF b.has_levels_data THEN 0 ELSE 1)]
                /\ grid' = [g1 EXCEPT ![k] = AddBuilding(@, b, t, districts)]
                /\ lookup_log' = IF NeedsLookup(g1[k], districts)
                                 THEN Append(lookup_log, key) ELSE lookup_log
    /\ UNCHANGED <<buildings, districts, grid_cells, total_population,
                   districts_population, all_buildings_cached>>
    /\ UNCHANGED <<estVars, recVars, schVars, lookVars>>

\* Lines 279-361: calibration, the real cells, the totals, the sort.
CalibrateAndCollect ==
    /\ g_pc = "loop"
    /\ bidx = Len(buildings)
    /\ LET cells == RealCells(grid, stats.total_population)
       IN  /\ grid_cells' = cells
           /\ total_population' =
                  SumSeq([i \in 1..Len(cells) |-> cells[i].population])
           /\ districts_population' =
                  DistrictTotals(DOMAIN districts_population, cells)
           /\ stats' = [stats EXCEPT !.total_population = total_population']
    /\ g_pc' = IF HasDistricts(districts) THEN "interpolate" ELSE "return"
    /\ UNCHANGED <<buildings, districts, bidx, grid, lookup_log,
                   all_buildings_cached>>
    /\ UNCHANGED <<estVars, recVars, schVars, lookVars>>

\* Lines 366-439: the interpolation pass, taken only `if districts`.
Interpolate ==
    /\ g_pc = "interpolate"
    /\ grid_cells' = grid_cells \o
           InterpolatedCells(grid_cells, DistrictList(districts),
                             districts_population)
    /\ g_pc' = "return"
    /\ UNCHANGED <<buildings, districts, bidx, grid, stats, lookup_log,
                   total_population, districts_population,
                   all_buildings_cached>>
    /\ UNCHANGED <<estVars, recVars, schVars, lookVars>>

\* get_enhanced_heatmap_data, lines 158-187: the cached building list built
\* from the same records after create_population_grid returned.
CacheBuildings ==
    /\ g_pc = "return"
    /\ all_buildings_cached' =
           [i \in 1..Len(buildings) |-> ViewSiteTriple(buildings[i])]
    /\ g_pc' = "cached"
    /\ UNCHANGED <<buildings, districts, bidx, grid, stats, lookup_log,
                   grid_cells, total_population, districts_population>>
    /\ UNCHANGED <<estVars, recVars, schVars, lookVars>>

\* ------------------------------------------------------------------------
\* AIRecommendationsService: helpers
\* ------------------------------------------------------------------------
STUDENT_RATIO_PCT == 18
DEFAULT_GROWTH == 105
HIGH_DENSITY == 6000
DEFAULT_ZONE_RADIUS == 3
FAR_FROM_SCHOOL2 == 64
TOP_DENSITY_CELLS == 50
REPORTED_CELLS == 30
TOP_UP_CELLS == 10
MIN_CANDIDATES == 5
MAX_SITES == 5
MIN_SPACING2 == 36
MIN_CAPACITY == 500
MAX_CAPACITY == 1500

\* _get_growth_factor: 1.05 without a usable forecast, else
\* max(1.0, round(future / base, 2)); the forecast is reduced to the first
\* and last school-age populations.
RoundDiv(num, den) == ((2 * num) + den) \div (2 * den)

_get_growth_factor(forecast) ==
    IF IsNone(forecast) THEN DEFAULT_GROWTH
    ELSE IF Val(forecast).base <= 0 \/ Val(forecast).future = 0 THEN DEFAULT_GROWTH
    ELSE Max2(100, RoundDiv(Val(forecast).future * 100, Val(forecast).base))

\* _estimate_students: int(population * 0.18), int(current * growth_factor).
_estimate_students(population, gf) ==
    LET current == Trunc(population * STUDENT_RATIO_PCT, 100)
    IN  [current |-> current, projected |-> Trunc(current * gf, 100)]

\* Lines 242-255: whether the cell lies inside some restricted zone.
InRestrictedZone(cell, zones) ==
    \E k \in 1..Len(GetOr(zones, <<>>)) :
        LET zone == Val(zones)[k]
            radius == GetOr(zone.radius_km, DEFAULT_ZONE_RADIUS)
        IN  /\ radius > 0
            /\ Dist2(cell.lat, cell.lng, zone.lat, zone.lng) < radius * radius

\* Lines 238-273: the high-density cells, sorted by density, descending.
HighDensityCells(cells, zones, gf) ==
    LET dense == FilterSeq(cells, LAMBDA c : c.density > HIGH_DENSITY)
        made == [i \in 1..Len(dense) |->
                    LET c == dense[i]
                        st == _estimate_students(c.population, gf)
                    IN  [lat |-> c.lat, lng |-> c.lng, density |-> c.density,
                         population |-> c.population, district |-> c.district,
                         buildings_count |-> c.buildings_count,
                         in_restricted_zone |-> InRestrictedZone(c, zones),
                         students_current |-> st.current,
                         students_projected |-> st.projected]]
    IN  SortStable(made, LAMBDA a, b : a.density > b.density)

\* Lines 314-328: the squared distance to the nearest school that has
\* coordinates; -1 stands for float('inf').
NearestSchool2(cell, roster) ==
    LET located == {k \in 1..Len(roster) :
                       ~IsNone(roster[k].latitude) /\ ~IsNone(roster[k].longitude)}
        d2(k) == Dist2(cell.lat, cell.lng,
                       Val(roster[k].latitude), Val(roster[k].longitude))
    IN  IF located = {} THEN -1
        ELSE d2(CHOOSE k \in located : \A j \in located : d2(k) <= d2(j))

IsFar(d2) == d2 < 0 \/ d2 > FAR_FROM_SCHOOL2

\* Lines 331-335: the cell with nearest_school_km and the exact distance
\* the > 0.8 test reads.
WithDistance(cell, roster) ==
    LET d2 == NearestSchool2(cell, roster)
    IN  [lat |-> cell.lat, lng |-> cell.lng, density |-> cell.density,
         population |-> cell.population, district |-> cell.district,
         buildings_count |-> cell.buildings_count,
         in_restricted_zone |-> cell.in_restricted_zone,
         students_current |-> cell.students_current,
         students_projected |-> cell.students_projected,
         nearest_school_km |-> IF d2 < 0 THEN NoneV ELSE Some(RoundKm2(d2)),
         far |-> IsFar(d2)]

CellsWithDistance(hd, roster) ==
    LET top == Prefix(hd, TOP_DENSITY_CELLS)
    IN  [i \in 1..Len(top) |-> WithDistance(top[i], roster)]

\* ------------------------------------------------------------------------
\* generate_recommendations: the district filter (lines 383-391)
\* ------------------------------------------------------------------------
\* district_filter.lower() in c.get('district', '').lower(); a cell whose
\* district is None makes .lower() raise AttributeError.
FilterRaises(cells, f) ==
    ~IsNone(f) /\ Len(Val(f)) > 0 /\ \E i \in 1..Len(cells) : IsNone(cells[i].district)

MatchesDistrict(cell, f) == IsSubstr(Lower(Val(f)), Lower(Val(cell.district)))

FilterByDistrict(cells, f) ==
    IF IsNone(f) \/ Len(GetOr(f, <<>>)) = 0 THEN cells
    ELSE FilterSeq(cells, LAMBDA c : MatchesDistrict(c, f))

\* Lines 394-398: candidate_cells is the list cells_without_schools itself,
\* extended in place when it holds fewer than 5 cells.
TopUp(candidates, hd) ==
    IF Len(candidates) < MIN_CANDIDATES
    THEN candidates \o Prefix(hd, TOP_UP_CELLS)
    ELSE candidates

\* ------------------------------------------------------------------------
\* _generate_smart_recommendations
\* ------------------------------------------------------------------------
\* The selector without the restricted-zone filter.
ValidCells_Unfiltered(candidates) == candidates

\* Line 508.
ValidCells(candidates) ==
    FilterSeq(candidates, LAMBDA c : ~c.in_restricted_zone)

\* Lines 510-512.
FallsBack(candidates) == Len(candidates) > 0 /\ Len(ValidCells(candidates)) = 0

CellsToScore(candidates) ==
    IF FallsBack(candidates) THEN candidates ELSE ValidCells(candidates)

\* The distance raised to at least 1 km: max(nearest_school_km or 1, 1).
NearestOrOne_AtLeastOne(cell) ==
    IF IsNone(cell.nearest_school_km) THEN 100
    ELSE Max2(Val(cell.nearest_school_km), 100)

\* cell.get('nearest_school_km') or 1, in hundredths of a km.
NearestOrOne(cell) ==
    IF IsNone(cell.nearest_school_km) \/ GetOr(cell.nearest_school_km, 0) = 0
    THEN 100 ELSE Val(cell.nearest_school_km)

\* score = density * nearest ** 1.5 * (population / 1000), compared through
\* its square in exact arithmetic: density^2 * nearest^3 * population^2.
ScoreKey(cell) ==
    LET n == NearestOrOne(cell)
    IN  BigMul(BigMul(BigMul(BigMul(BigMul(BigMul(BigMul(<<1>>,
            cell.density), cell.density), n), n), n),
            cell.population), cell.population)

\* Lines 528-531: {**cell, 'score': score}; the score is kept as ScoreKey.
WithScore(cell) ==
    [lat |-> cell.lat, lng |-> cell.lng, density |-> cell.density,
     population |-> cell.population, district |-> cell.district,
     buildings_count |-> cell.buildings_count,
     in_restricted_zone |-> cell.in_restricted_zone,
     students_current |-> cell.students_current,
     students_projected |-> cell.students_projected,
     nearest_school_km |-> cell.nearest_school_km, far |-> cell.far,
     score |-> ScoreKey(cell)]

\* The comparison turned round: the lower score first.
ScoreHigher_Ascending(a, b) == BigLess(a.score, b.score)

ScoreHigher(a, b) == BigLess(b.score, a.score)

\* Lines 519-534.
ScoredCells(candidates) ==
    LET valid_cells == CellsToScore(candidates)
    IN  SortStable([i \in 1..Len(valid_cells) |-> WithScore(valid_cells[i])],
                   ScoreHigher)

\* The spacing test with 0.5 km (one grid step) in place of 0.6 km.
TooClose_OneGridStep(cell, sel) ==
    \E k \in 1..Len(sel) :
        Dist2(cell.lat, cell.lng, sel[k].lat, sel[k].lng)
            < GRID_STEP * GRID_STEP

\* Line 541-547: whether cell is closer than 600 m to a selected cell.
TooClose(cell, sel) ==
    \E k \in 1..Len(sel) :
        Dist2(cell.lat, cell.lng, sel[k].lat, sel[k].lng) < MIN_SPACING2

\* Lines 564-569.  With nearest_school_km None the comparison None > 1.5
\* raises TypeError unless density > 15000 short-circuits it.
PriorityRaises(cell) == cell.density <= 15000 /\ IsNone(cell.nearest_school_km)

Priority(cell) ==
    LET km == GetOr(cell.nearest_school_km, 0)
    IN  IF cell.density > 15000 \/ km > 150 THEN "critical"
        ELSE IF cell.density > 10000 \/ km > 100 THEN "high"
        ELSE "medium"

\* Lines 572-580.
StudentSnapshot(cell, gf) ==
    IF cell.students_current = 0
    THEN _estimate_students(cell.population, gf)
    ELSE [current |-> cell.students_current,
          projected |-> cell.students_projected]

\* The floor alone: max(500, projected).
RecommendedCapacity_NoCeiling(projected) == Max2(MIN_CAPACITY, projected)

RecommendedCapacity(projected) ==
    Min2(MAX_CAPACITY, Max2(MIN_CAPACITY, projected))

\* The record with latitude and longitude exchanged.
Recommendation_Swapped(i, cell, gf) ==
    LET snap == StudentSnapshot(cell, gf)
        cap == RecommendedCapacity(snap.projected)
    IN  [id |-> i, lat |-> cell.lng, lng |-> cell.lat,
         district |-> cell.district, priority |-> Priority(cell),
         recommended_capacity |-> cap, nearby_density |-> cell.density,
         estimated_students |-> snap.projected,
         nearest_school_km |-> cell.nearest_school_km,
         coverage_gap |-> Max2(0, snap.projected - cap)]

\* Lines 594-619, without the catchment, traffic, land-use and contextual
\* sub-assessments (pure functions of the cell that cannot raise).
Recommendation(i, cell, gf) ==
    LET snap == StudentSnapshot(cell, gf)
        cap == RecommendedCapacity(snap.projected)
    IN  [id |-> i, lat |-> cell.lat, lng |-> cell.lng,
         district |-> cell.district, priority |-> Priority(cell),
         recommended_capacity |-> cap, nearby_density |-> cell.density,
         estimated_students |-> snap.projected,
         nearest_school_km |-> cell.nearest_school_km,
         coverage_gap |-> Max2(0, snap.projected - cap)]

Recommendations(sel, gf) ==
    [i \in 1..Len(sel) |-> Recommendation(i, sel[i], gf)]

\* ------------------------------------------------------------------------
\* The text layer: _enrich_with_ai and _parse_response
\* ------------------------------------------------------------------------
\* What generate_content does: it raises, or returns a text that is
\*   "object"   a JSON object (with or without a "summary" member),
\*   "array"    valid JSON that is not an object,
\*   "garbage"  text holding no JSON at all,
\*   "broken"   text whose {...} part is not valid JSON;
\* fenced: wrapped in a markdown fence; prose: surrounded by other text.
AiReplies ==
    { [raises |-> TRUE, body |-> "none", fenced |-> FALSE, prose |-> FALSE,
       has_summary |-> FALSE] }
    \cup { [raises |-> FALSE, body |-> "object", fenced |-> f, prose |-> p,
            has_summary |-> h] :
             f \in BOOLEAN, p \in BOOLEAN, h \in BOOLEAN }
    \cup { [raises |-> FALSE, body |-> b, fenced |-> FALSE, prose |-> FALSE,
            has_summary |-> FALSE] : b \in {"array", "garbage", "broken"} }

NoReply ==
    [raises |-> FALSE, body |-> "none", fenced |-> FALSE, prose |-> FALSE,
     has_summary |-> FALSE]

\* _parse_response: the fence is stripped; json.loads succeeds on a bare
\* object or array; otherwise the first {...} is searched and parsed; else
\* the fixed dict with summary 'Не удалось распарсить ответ AI'.
\* Result: kind "dict" or "other", and which summary the dict carries.
_parse_response(reply) ==
    IF ~reply.prose /\ reply.body = "object"
    THEN [kind |-> "dict",
          summary |-> IF reply.has_summary THEN "ai" ELSE "absent"]
    ELSE IF ~reply.prose /\ reply.body = "array"
    THEN [kind |-> "other", summary |-> "absent"]
    ELSE IF reply.body = "object"
    THEN [kind |-> "dict",
          summary |-> IF reply.has_summary THEN "ai" ELSE "absent"]
    ELSE [kind |-> "dict", summary |-> "parse_failed"]

\* The outcome of _enrich_with_ai: it raises (generate_content raised, or
\* .get on a non-dict raised AttributeError), or returns the summary.
\* A summary is [text, n]: the AI's own text, the parse-failure text, or a
\* template filled with the number of recommendations.
EnrichRaises(reply) ==
    reply.raises \/ _parse_response(reply).kind # "dict"

EnrichSummary(reply, recs) ==
    LET parsed == _parse_response(reply)
    IN  CASE parsed.summary = "ai" -> [text |-> "ai", n |-> 0]
          [] parsed.summary = "parse_failed" -> [text |-> "parse_failed", n |-> 0]
          [] OTHER -> [text |-> "found_n_zones", n |-> Len(recs)]

\* Lines 475-476: the summary of the except branch.
FallbackSummary(recs) == [text |-> "analysis_found_n_zones", n |-> Len(recs)]

\* The response taking the recommendation list from the parsed reply when
\* the reply could not be parsed (the parse-failure dict carries
\* 'recommendations': []).
BuildResponse_TrustsReply(reply, recs, hd, cws) ==
    LET own == IF ~EnrichRaises(reply)
                  /\ _parse_response(reply).summary = "parse_failed"
               THEN <<>> ELSE recs
    IN  [success |-> TRUE,
         summary |-> IF EnrichRaises(reply) THEN FallbackSummary(recs)
                     ELSE EnrichSummary(reply, recs),
         recommendations |-> own,
         total_schools_needed |-> Len(own),
         high_density_cells_count |-> Len(hd),
         cells_without_schools |-> Len(cws)]

\* Lines 408-495: the returned dict, reduced to success, the summary, the
\* recommendation list and the two analysis_summary counts.
BuildResponse(reply, recs, hd, cws) ==
    [success |-> TRUE,
     summary |-> IF EnrichRaises(reply) THEN FallbackSummary(recs)
                 ELSE EnrichSummary(reply, recs),
     recommendations |-> recs,
     total_schools_needed |-> Len(recs),
     high_density_cells_count |-> Len(hd),
     cells_without_schools |-> Len(cws)]

\* ------------------------------------------------------------------------
\* Bounded inputs of the recommendation pipeline
\* ------------------------------------------------------------------------
\* Grid cell centres (multiples of the grid step).  Sites 1-6 are pairwise
\* at least 0.6 km apart; site 7 is 0.5 km from sites 1, 2 and 5.
NumSites == 7

SiteAt(k) ==
    CASE k = 1 -> <<0, 0>>
      [] k = 2 -> <<0, 10>>
      [] k = 3 -> <<10, 0>>
      [] k = 4 -> <<10, 10>>
      [] k = 5 -> <<5, 5>>
      [] k = 6 -> <<5, 15>>
      [] k = 7 -> <<0, 5>>
      [] OTHER -> <<5 * k, 5 * k>>

SiteDensity(k) ==
    CASE k = 1 -> 16000
      [] k = 2 -> 9000
      [] k = 3 -> 12000
      [] k = 4 -> 9000
      [] k = 5 -> 36000
      [] k = 6 -> 7000
      [] k = 7 -> 20000
      [] OTHER -> 8000

West == <<"W", "e", "s", "t">>
East == <<"e", "a", "s", "t">>

SiteDistrict(k) ==
    IF k = 6 THEN NoneV ELSE IF k % 2 = 1 THEN Some(West) ELSE Some(East)

\* A real cell of create_population_grid: density = int(population / 0.25).
GridCellAt(k) ==
    [lat |-> SiteAt(k)[1], lng |-> SiteAt(k)[2], density |-> SiteDensity(k),
     population |-> SiteDensity(k) \div 4, district |-> SiteDistrict(k),
     buildings_count |-> 10]

SparseCell ==
    [lat |-> 20, lng |-> 20, density |-> 4000, population |-> 1000,
     district |-> Some(East), buildings_count |-> 3]

\* The grids: any subset of the sites plus one low-density cell, in the
\* order create_population_grid returns them (by density, descending).
GridOf(present) ==
    LET ks == SortStable(
                  FilterSeq([k \in 1..NumSites |-> k], LAMBDA k : k \in present),
                  LAMBDA a, b : SiteDensity(a) > SiteDensity(b))
    IN  [i \in 1..Len(ks) |-> GridCellAt(ks[i])] \o <<SparseCell>>

\* A grid with more high-density cells than prepare_analysis_data measures
\* (it takes the first 50): CrowdedCells cells on distinct centres, 1 km
\* apart, in descending order of density.
CrowdedCells == 52

CrowdedCellAt(k) ==
    [lat |-> 30 + (10 * ((k - 1) % 8)), lng |-> 30 + (10 * ((k - 1) \div 8)),
     density |-> 20000 - (200 * k), population |-> (20000 - (200 * k)) \div 4,
     district |-> Some(East), buildings_count |-> 10]

CrowdedGrid == [k \in 1..CrowdedCells |-> CrowdedCellAt(k)]

GridInputs ==
    {GridOf(present) : present \in SUBSET (1..NumSites)} \cup {CrowdedGrid}

School(lat, lng) ==
    [latitude |-> lat, longitude |-> lng, total_students |-> 900,
     capacity |-> 800]

RosterInputs ==
    { <<>>,
      <<School(Some(1), Some(1))>>,
      <<School(Some(4), Some(9))>>,
      <<School(NoneV, NoneV), School(Some(40), Some(40))>> }

Zone(lat, lng, radius) == [lat |-> lat, lng |-> lng, radius_km |-> radius]

ZoneInputs ==
    { NoneV,
      Some(<<Zone(0, 5, Some(5)), Zone(5, 6, NoneV)>>),
      Some(<<Zone(5, 5, Some(30))>>) }

FilterInputs == {NoneV, Some(<<"E", "S">>)}

ForecastInputs == {NoneV, Some([base |-> 1000, future |-> 1300])}

RecIdle ==
    /\ r_pc = "idle"
    /\ grid_data = <<>>
    /\ schools = <<>>
    /\ restricted_zones = NoneV
    /\ ml_forecast = NoneV
    /\ district_filter = NoneV
    /\ growth_factor = 0
    /\ high_density_cells = <<>>
    /\ cells_without_schools = <<>>
    /\ far_cells = <<>>
    /\ used_fallback = FALSE
    /\ scored_cells = <<>>
    /\ sidx = 0
    /\ selected = <<>>
    /\ base_recommendations = <<>>
    /\ ai_reply = NoReply
    /\ response = NoneV

RecStart ==
    /\ r_pc = "input"
    /\ grid_data \in GridInputs
    /\ schools \in RosterInputs
    /\ restricted_zones \in ZoneInputs
    /\ ml_forecast \in ForecastInputs
    /\ district_filter \in FilterInputs
    /\ growth_factor = 0
    /\ high_density_cells = <<>>
    /\ cells_without_schools = <<>>
    /\ far_cells = <<>>
    /\ used_fallback = FALSE
    /\ scored_cells = <<>>
    /\ sidx = 0
    /\ selected = <<>>
    /\ base_recommendations = <<>>
    /\ ai_reply = NoReply
    /\ response = NoneV

recInputs == <<grid_data, schools, restricted_zones, ml_forecast, district_filter>>

\* prepare_analysis_data (lines 232-353).
PrepareAnalysisData ==
    /\ r_pc = "input"
    /\ growth_factor' = _get_growth_factor(ml_forecast)
    /\ LET hd == HighDensityCells(grid_data, restricted_zones, growth_factor')
           cwd == CellsWithDistance(hd, schools)
       IN  /\ high_density_cells' = Prefix(cwd, REPORTED_CELLS)
           /\ cells_without_schools' = FilterSeq(cwd, LAMBDA c : c.far)
           /\ far_cells' = FilterSeq(cwd, LAMBDA c : c.far)
    /\ r_pc' = "prepared"
    /\ UNCHANGED <<recInputs, used_fallback, scored_cells, sidx, selected,
                   base_recommendations, ai_reply, response>>
    /\ UNCHANGED <<estVars, gridVars, schVars, lookVars>>

\* generate_recommendations, lines 382-398, and the head of
\* _generate_smart_recommendations, lines 504-537.
BeginRecommendations ==
    /\ r_pc = "prepared"
    /\ IF FilterRaises(high_density_cells, district_filter)
          \/ FilterRaises(cells_without_schools, district_filter)
       THEN /\ r_pc' = "raised_AttributeError"
            /\ UNCHANGED <<high_density_cells, cells_without_schools,
                           used_fallback, scored_cells>>
       ELSE LET hd == FilterByDistrict(high_density_cells, district_filter)
                cws == FilterByDistrict(cells_without_schools, district_filter)
                candidates == TopUp(cws, hd)
            IN  /\ high_density_cells' = hd
                /\ cells_without_schools' = candidates
                /\ used_fallback' = FallsBack(candidates)
                /\ scored_cells' = ScoredCells(candidates)
                /\ r_pc' = "greedy"
    /\ UNCHANGED <<recInputs, growth_factor, far_cells, sidx, selected,
                   base_recommendations, ai_reply, response>>
    /\ UNCHANGED <<estVars, gridVars, schVars, lookVars>>

\* One iteration of the greedy loop, lines 538-552.
GreedyStep ==
    /\ r_pc = "greedy"
    /\ sidx < Len(scored_cells)
    /\ Len(selected) < MAX_SITES
    /\ sidx' = sidx + 1
    /\ selected' = IF TooClose(scored_cells[sidx + 1], selected)
                   THEN selected
                   ELSE Append(selected, scored_cells[sidx + 1])
    /\ UNCHANGED <<recInputs, growth_factor, high_density_cells,
                   cells_without_schools, far_cells, used_fallback,
                   scored_cells, r_pc, base_recommendations, ai_reply,
                   response>>
    /\ UNCHANGED <<estVars, gridVars, schVars, lookVars>>

\* Lines 554-621: the recommendation records, once the loop has ended.
BuildRecommendations ==
    /\ r_pc = "greedy"
    /\ sidx = Len(scored_cells) \/ Len(selected) >= MAX_SITES
    /\ IF \E i \in 1..Len(selected) : PriorityRaises(selected[i])
       THEN /\ r_pc' = "raised_TypeError"
            /\ UNCHANGED base_recommendations
       ELSE /\ r_pc' = "enrich"
            /\ base_recommendations' = Recommendations(selected, growth_factor)
    /\ UNCHANGED <<recInputs, growth_factor, high_density_cells,
                   cells_without_schools, far_cells, used_fallback,
                   scored_cells, sidx, selected, ai_reply, response>>
    /\ UNCHANGED <<estVars, gridVars, schVars, lookVars>>

\* Lines 408-495: the text layer is asked and the response is returned,
\* through the try branch or the except branch.
EnrichAndRespond ==
    /\ r_pc = "enrich"
    /\ \E reply \in AiReplies :
          /\ ai_reply' = reply
          /\ response' = Some(BuildResponse(reply, base_recommendations,
                                            high_density_cells,
                                            cells_without_schools))
    /\ r_pc' = "done"
    /\ UNCHANGED <<recInputs, growth_factor, high_density_cells,
                   cells_without_schools, far_cells, used_fallback,
                   scored_cells, sidx, selected, base_recommendations>>
    /\ UNCHANGED <<estVars, gridVars, schVars, lookVars>>

\* ------------------------------------------------------------------------
\* School.estimated_capacity and the roster of ai_school_recommendations
\* ------------------------------------------------------------------------
CLASS_SIZE == 28

\* The derivation with real_capacity consulted before max_capacity.
estimated_capacity_RealFirst(s) ==
    IF s.real_capacity > 0 THEN s.real_capacity
    ELSE IF s.max_capacity > 0 THEN s.max_capacity
    ELSE IF s.total_classes > 0 THEN s.total_classes * CLASS_SIZE
    ELSE IF s.total_students > 0 THEN s.total_students
    ELSE 0

\* The derivation with the first test off by one (max_capacity > 1).
estimated_capacity_OffByOne(s) ==
    IF s.max_capacity > 1 THEN s.max_capacity
    ELSE IF s.real_capacity > 0 THEN s.real_capacity
    ELSE IF s.total_classes > 0 THEN s.total_classes * CLASS_SIZE
    ELSE IF s.total_students > 0 THEN s.total_students
    ELSE 0

\* models.py, lines 84-104.
estimated_capacity(s) ==
    IF s.max_capacity > 0 THEN s.max_capacity
    ELSE IF s.real_capacity > 0 THEN s.real_capacity
    ELSE IF s.total_classes > 0 THEN s.total_classes * CLASS_SIZE
    ELSE IF s.total_students > 0 THEN s.total_students
    ELSE 0

\* models.py, lines 106-112: round(total_students / capacity * 100, 2),
\* kept in hundredths of a percent.
occupancy_rate(s) ==
    LET capacity == estimated_capacity(s)
    IN  IF capacity > 0 THEN RoundDiv(s.total_students * 10000, capacity) ELSE 0

\* views.py, lines 1765-1775: the dict the view appends for a row.
RosterEntry(s) ==
    [total_students |-> s.total_students, capacity |-> estimated_capacity(s),
     occupancy_rate |-> occupancy_rate(s)]

\* prepare_analysis_data, lines 277-306, for the row's district.
DistrictEntry(entries) ==
    [schools_count |-> Len(entries),
     total_students |->
         SumSeq([i \in 1..Len(entries) |-> entries[i].total_students]),
     total_capacity |->
         SumSeq([i \in 1..Len(entries) |-> entries[i].capacity]),
     overloaded |->
         Cardinality({i \in 1..Len(entries) : entries[i].occupancy_rate > 10000})]

\* Bounded inputs: the counts a School row holds.
MaxRequests == 2

CapacityValues == {0, 1, 2, 600}
RealCapacityValues == {0, 1, 500}
ClassCounts == {0, 1, 20}
StudentCounts == {0, 1, 700}

SchoolRows ==
    [max_capacity : CapacityValues, real_capacity : RealCapacityValues,
     total_classes : ClassCounts, total_students : StudentCounts]

NoRow ==
    [max_capacity |-> 0, real_capacity |-> 0, total_classes |-> 0,
     total_students |-> 0]

NoEntry == [total_students |-> 0, capacity |-> 0, occupancy_rate |-> 0]

NoDistrictEntry ==
    [schools_count |-> 0, total_students |-> 0, total_capacity |-> 0,
     overloaded |-> 0]

SchoolIdle ==
    /\ sch_pc = "idle"
    /\ school = NoRow
    /\ school_entry = NoEntry
    /\ districts_stats = NoDistrictEntry
    /\ prev_school = NoRow
    /\ prev_entry = NoEntry
    /\ requests = 0

SchoolStart ==
    /\ sch_pc = "stored"
    /\ school \in SchoolRows
    /\ school_entry = NoEntry
    /\ districts_stats = NoDistrictEntry
    /\ prev_school = NoRow
    /\ prev_entry = NoEntry
    /\ requests = 0

\* ai_school_recommendations, lines 1763-1775.
BuildRoster ==
    /\ sch_pc = "stored"
    /\ school_entry' = RosterEntry(school)
    /\ sch_pc' = "roster"
    /\ UNCHANGED <<school, districts_stats, prev_school, prev_entry,
                   requests>>
    /\ UNCHANGED <<estVars, gridVars, recVars, lookVars>>

\* prepare_analysis_data, lines 275-306 and 346-348.
AnalyseDistricts ==
    /\ sch_pc = "roster"
    /\ districts_stats' = DistrictEntry(<<school_entry>>)
    /\ sch_pc' = "analysed"
    /\ requests' = requests + 1
    /\ UNCHANGED <<school, school_entry, prev_school, prev_entry>>
    /\ UNCHANGED <<estVars, gridVars, recVars, lookVars>>

\* Between two requests the row's max_capacity is raised, all else fixed.
RaiseMaxCapacity ==
    /\ sch_pc = "analysed"
    /\ requests < MaxRequests
    /\ \E m \in CapacityValues :
          /\ m > school.max_capacity
          /\ school' = [school EXCEPT !.max_capacity = m]
    /\ prev_school' = school
    /\ prev_entry' = school_entry
    /\ sch_pc' = "stored"
    /\ UNCHANGED <<school_entry, districts_stats, requests>>
    /\ UNCHANGED <<estVars, gridVars, recVars, lookVars>>

SchoolNext ==
    \/ BuildRoster
    \/ AnalyseDistricts
    \/ RaiseMaxCapacity

\* ------------------------------------------------------------------------
\* _find_nearest_district on its own: a point and a district list
\* ------------------------------------------------------------------------
MaxDistricts == 3

\* A district known only by its centre whose 2.5 km circle reaches into
\* the west district's ring and into the east district's circle.
DistrictNorth ==
    [name |-> "north", lat |-> 10, lng |-> 20, geometry |-> <<>>]

LookupDistricts == {DistrictWest, DistrictEast, DistrictNorth}

\* The district lists: every order of every choice of districts.
LookupLists ==
    UNION {{l \in [1..n -> LookupDistricts] :
               \A i, j \in 1..n : i # j => l[i] # l[j]} :
           n \in 0..Min2(MaxDistricts, Cardinality(LookupDistricts))}

LookupPoints ==
    {<<lat, lng>> : lat \in {0, 5},
                    lng \in {0, 2, 4, 30, 60, 65, 66, 89, 90, 91, 120}}

LookupIdle ==
    /\ look_pc = "idle"
    /\ look_point = <<0, 0>>
    /\ look_districts = <<>>
    /\ look_result = NoneV

LookupStart ==
    /\ look_pc = "input"
    /\ look_point \in LookupPoints
    /\ look_districts \in LookupLists
    /\ look_result = NoneV

\* One call of _find_nearest_district (lines 473-503).
FindNearestDistrict ==
    /\ look_pc = "input"
    /\ look_result' = _find_nearest_district(look_point[1], look_point[2],
                                             look_districts)
    /\ look_pc' = "returned"
    /\ UNCHANGED <<look_point, look_districts>>
    /\ UNCHANGED <<estVars, gridVars, recVars, schVars>>

LookupNext == FindNearestDistrict

GridNext ==
    \/ BeginGrid
    \/ ProcessBuilding
    \/ CalibrateAndCollect
    \/ Interpolate
    \/ CacheBuildings

EstNext == EstimateInGrid \/ EstimateInView

RecNext ==
    \/ PrepareAnalysisData
    \/ BeginRecommendations
    \/ GreedyStep
    \/ BuildRecommendations
    \/ EnrichAndRespond

Init == EstIdle /\ GridStart /\ RecIdle /\ SchoolIdle /\ LookupIdle
Next == GridNext
Spec == Init /\ [][Next]_vars

EstInit == EstStart /\ GridIdle /\ RecIdle /\ SchoolIdle /\ LookupIdle
SpecEst == EstInit /\ [][EstNext]_vars

RecInit == EstIdle /\ GridIdle /\ RecStart /\ SchoolIdle /\ LookupIdle
SpecRec == RecInit /\ [][RecNext]_vars

SchoolInit == EstIdle /\ GridIdle /\ RecIdle /\ SchoolStart /\ LookupIdle
SpecSchool == SchoolInit /\ [][SchoolNext]_vars

LookupInit == EstIdle /\ GridIdle /\ RecIdle /\ SchoolIdle /\ LookupStart
SpecLookup == LookupInit /\ [][LookupNext]_vars

\* ------------------------------------------------------------------------
\* Properties
\* ------------------------------------------------------------------------
Returned == IF IsNone(response) THEN <<>> ELSE Val(response).recommendations

\* The candidate list handed to the selector (after filter and top-up).
candidate_cells == cells_without_schools

SelectorEntered == r_pc \in {"greedy", "enrich", "done", "raised_TypeError"}

\* Geometry of the restricted zones, stated on the inputs alone.
WithinZone(lat, lng) ==
    /\ ~IsNone(restricted_zones)
    /\ \E k \in 1..Len(Val(restricted_zones)) :
          LET z == Val(restricted_zones)[k]
              r == IF IsNone(z.radius_km) THEN 3 ELSE Val(z.radius_km)
          IN  ((lat - z.lat) * (lat - z.lat)) + ((lng - z.lng) * (lng - z.lng))
                  < r * r

Apart(a, b) ==
    ((a.lat - b.lat) * (a.lat - b.lat)) + ((a.lng - b.lng) * (a.lng - b.lng)) >= 36

\* C1: any two distinct sites the selector holds or returns are at least
\* 0.6 km apart, after every step of the greedy loop and in the response.
C1_Spacing ==
    /\ \A i, j \in 1..Len(selected) : i # j => Apart(selected[i], selected[j])
    /\ \A i, j \in 1..Len(base_recommendations) :
          i # j => Apart(base_recommendations[i], base_recommendations[j])
    /\ \A i, j \in 1..Len(Returned) : i # j => Apart(Returned[i], Returned[j])

\* A finished run that returned two sites and passed over a candidate at
\* another place because it was closer than 0.6 km to a selected one.
C1_Witness ==
    /\ r_pc = "done"
    /\ Len(Returned) >= 2
    /\ \E i \in 1..sidx :
          /\ \A k \in 1..Len(selected) :
                <<scored_cells[i].lat, scored_cells[i].lng>>
                    # <<selected[k].lat, selected[k].lng>>
          /\ \E k \in 1..Len(selected) : ~Apart(scored_cells[i], selected[k])

\* C2: when some candidate lies outside every restricted zone, no selected
\* or returned site lies inside a restricted zone (closer to the zone's
\* centre than its radius), top-up included.
C2_ZonesExcluded ==
    (/\ SelectorEntered
     /\ \E i \in 1..Len(candidate_cells) :
           ~WithinZone(candidate_cells[i].lat, candidate_cells[i].lng))
    => /\ \A k \in 1..Len(selected) : ~WithinZone(selected[k].lat, selected[k].lng)
       /\ \A k \in 1..Len(Returned) : ~WithinZone(Returned[k].lat, Returned[k].lng)

\* A finished run whose candidate list was topped up from the high-density
\* list, held restricted and unrestricted cells, and returned a site.
C2_Witness ==
    /\ r_pc = "done"
    /\ Len(FilterByDistrict(far_cells, district_filter)) < 5
    /\ Len(candidate_cells) > Len(FilterByDistrict(far_cells, district_filter))
    /\ \E i \in 1..Len(candidate_cells) :
          WithinZone(candidate_cells[i].lat, candidate_cells[i].lng)
    /\ \E i \in 1..Len(candidate_cells) :
          ~WithinZone(candidate_cells[i].lat, candidate_cells[i].lng)
    /\ Len(Returned) >= 1

AllCandidatesRestricted ==
    /\ Len(candidate_cells) > 0
    /\ \A i \in 1..Len(candidate_cells) :
          WithinZone(candidate_cells[i].lat, candidate_cells[i].lng)

\* C3: with a non-empty candidate list wholly inside restricted zones the
\* selector falls back to the unfiltered candidates and returns a
\* non-empty list; the fallback is taken in that case only.
C3_FallbackReturnsSites ==
    SelectorEntered =>
        /\ used_fallback <=> AllCandidatesRestricted
        /\ AllCandidatesRestricted =>
              /\ Len(scored_cells) = Len(candidate_cells)
              /\ r_pc # "raised_TypeError"
              /\ r_pc \in {"enrich", "done"} => Len(base_recommendations) >= 1

\* C4: every returned site sits on the centre of a cell of the grid given
\* to prepare_analysis_data.
C4_SitesAreGridCells ==
    \A k \in 1..Len(Returned) :
        \E i \in 1..Len(grid_data) :
            /\ grid_data[i].lat = Returned[k].lat
            /\ grid_data[i].lng = Returned[k].lng

\* A finished run that returned two sites with a summary written by the
\* text layer.
C4_Witness ==
    /\ r_pc = "done"
    /\ Len(Returned) >= 2
    /\ Val(response).summary.text = "ai"

TextLayerFailed == ai_reply.raises \/ ai_reply.body # "object"

SitesKept ==
    /\ Val(response).success
    /\ Val(response).recommendations = base_recommendations
    /\ \A k \in 1..Len(selected) :
          /\ base_recommendations[k].lat = selected[k].lat
          /\ base_recommendations[k].lng = selected[k].lng

CountSummary ==
    [text |-> "analysis_found_n_zones", n |-> Len(base_recommendations)]

\* C5 as claimed: whatever the text layer does the response carries the
\* selector's sites, and on every failure of the text layer (it raises, or
\* returns unparseable or non-object content) the summary is the fallback
\* string built from the number of sites.
C5_AsClaimed ==
    r_pc = "done" =>
        /\ SitesKept
        /\ TextLayerFailed => Val(response).summary = CountSummary

\* C5 amended: whatever the text layer does the response carries the
\* selector's sites; when the call raises or returns JSON that is not an
\* object the summary is the fallback string built from the number of
\* sites, and when it returns unparseable content the summary is the fixed
\* parse-failure string.
C5_SitesKeptFixedSummary ==
    r_pc = "done" =>
        /\ SitesKept
        /\ (ai_reply.raises \/ ai_reply.body = "array")
              => Val(response).summary = CountSummary
        /\ (~ai_reply.raises /\ ai_reply.body \in {"garbage", "broken"})
              => Val(response).summary = [text |-> "parse_failed", n |-> 0]

\* A finished run in which the text layer returned unparseable content and
\* the selector had chosen sites.
C5_Witness ==
    /\ r_pc = "done"
    /\ ai_reply.body = "garbage"
    /\ Len(base_recommendations) >= 2

\* C6: with an empty school roster (and no district filter) the pipeline
\* never raises: every high-density cell gets an unknown distance and a
\* recommendation list is produced.
C6_EmptyRosterCompletes ==
    (Len(schools) = 0 /\ IsNone(district_filter)) =>
        /\ r_pc \notin {"raised_TypeError", "raised_AttributeError"}
        /\ \A i \in 1..Len(high_density_cells) :
              IsNone(high_density_cells[i].nearest_school_km)

EstReturned == est_pc \in {"grid", "done"}

InRange(t) == t.population >= 2 /\ t.population <= 800

\* C7: the occupant count returned by calculate_building_population lies
\* between 2 and 800, at both call sites.
C7_OccupantsInRange ==
    /\ EstReturned => InRange(grid_triple)
    /\ est_pc = "done" => InRange(view_triple)

\* A 13-floor block of 9000 m2, whose unclamped estimate exceeds 800,
\* estimated at both call sites.
C7_Witness ==
    /\ est_pc = "done"
    /\ est_in.area_m2 = Some(9000)
    /\ est_in.levels = [kind |-> "int", val |-> 13]
    /\ grid_triple.population = 800

\* C8: the floor count returned by calculate_building_population is at
\* least 1 for every input, explicit zero or negative counts included.
C8_FloorsAtLeastOne ==
    /\ EstReturned => grid_triple.levels >= 1
    /\ est_pc = "done" => view_triple.levels >= 1

\* C9: the triple computed for a record during grid construction equals
\* the triple computed for it when the cached building list is built.
C9_CallSitesAgree ==
    est_pc = "done" => grid_triple = view_triple

GridReturned == g_pc \in {"return", "cached"}

\* C10: on an empty building list create_population_grid returns an empty
\* cell list and total_population 0, whatever the districts argument.
C10_EmptyListEmptyGrid ==
    (GridReturned /\ Len(buildings) = 0) =>
        /\ Len(grid_cells) = 0
        /\ total_population = 0

\* The real cells of the returned list, and the raw (pre-calibration)
\* population the grid dict holds for a returned cell's key.
RealIndexes == {i \in 1..Len(grid_cells) : ~grid_cells[i].interpolated}

RawOf(cell) == grid[IndexOfKey(grid, <<cell.lat, cell.lng>>)].population

RatioGap(a, b) ==
    LET d == (a.population * RawOf(b)) - (b.population * RawOf(a))
    IN  IF d >= 0 THEN d ELSE -d

GridCollected == g_pc \in {"interpolate", "return", "cached"}

\* The quantized key of a returned cell, recomputed from its coordinates.
KeyOfCell(c) ==
    << ((c.lat + 2) \div 5) * 5, ((c.lng + 2) \div 5) * 5 >>

\* C12: the returned cell list never holds two cells with the same
\* quantized (lat, lng) key, real or interpolated.
C12_OneCellPerKey ==
    GridCollected =>
        \A i, j \in 1..Len(grid_cells) :
            i # j => KeyOfCell(grid_cells[i]) # KeyOfCell(grid_cells[j])

\* A returned grid in which two buildings fell into one cell, and the
\* interpolation walk passed over that cell's key and added other cells.
C12_Witness ==
    /\ GridReturned
    /\ \E k \in 1..Len(grid) : grid[k].buildings_count = 2
    /\ \E i \in RealIndexes :
          \E p \in 1..Len(WalkPoints) :
              GridKey(WalkPoints[p][1], WalkPoints[p][2])
                  = <<grid_cells[i].lat, grid_cells[i].lng>>
    /\ \E i \in 1..Len(grid_cells) : grid_cells[i].interpolated

RosterBuilt == sch_pc \in {"roster", "analysed"}

\* The roster was rebuilt after max_capacity had been raised.
RebuiltAfterRaise == RosterBuilt /\ school.max_capacity > prev_school.max_capacity

\* C13 as claimed: with real_capacity, total_classes and total_students
\* fixed, the derived capacity never drops when max_capacity is raised,
\* the step from 0 included.
C13_AsClaimed ==
    RebuiltAfterRaise => school_entry.capacity >= prev_entry.capacity

\* C13 amended: with the other fields fixed, the derived capacity never
\* drops when max_capacity is raised from a value of at least 1; a step
\* from 0 replaces the fallback value by max_capacity, whichever is larger.
C13_MonotoneAboveZero ==
    RebuiltAfterRaise =>
        /\ prev_school.max_capacity >= 1
              => school_entry.capacity >= prev_entry.capacity
        /\ prev_school.max_capacity = 0 => school_entry.capacity = school.max_capacity

\* A row whose max_capacity was raised from 1 to 2 between two requests
\* while its real_capacity stayed 500.
C13_Witness ==
    /\ RebuiltAfterRaise
    /\ prev_school.max_capacity = 1
    /\ school.max_capacity = 2
    /\ school.real_capacity = 500
    /\ school_entry.capacity = 2

\* The first non-zero value in the order max_capacity, real_capacity,
\* total_classes * 28, total_students, else 0.
FirstNonZero(s) ==
    LET order == <<s.max_capacity, s.real_capacity, s.total_classes * 28,
                   s.total_students>>
        hits == {i \in 1..4 : order[i] # 0}
    IN  IF hits = {} THEN 0
        ELSE order[CHOOSE i \in hits : \A j \in hits : i <= j]

\* C14: for a row of non-negative counts the roster's capacity is the first
\* non-zero of max_capacity, real_capacity, total_classes * 28 and
\* total_students (else 0), derived from the row as it is stored at each
\* request, and the district analysis sums that value.
C14_FirstNonZeroUsed ==
    /\ RosterBuilt => school_entry.capacity = FirstNonZero(school)
    /\ sch_pc = "analysed" =>
          districts_stats.total_capacity = FirstNonZero(school)

\* A second request, after max_capacity was raised from 0, whose district
\* analysis uses the new value although real_capacity is set.
C14_Witness ==
    /\ sch_pc = "analysed"
    /\ requests = 2
    /\ prev_school.max_capacity = 0
    /\ prev_entry.capacity = 500
    /\ districts_stats.total_capacity = 600

Filtered == ~IsNone(district_filter) /\ Len(Val(district_filter)) > 0

\* The district name contains the filter, case-insensitively.
InFilteredDistrict(d) ==
    /\ ~IsNone(d)
    /\ IsSubstr(Lower(Val(district_filter)), Lower(Val(d)))

\* No high-density cell of the grid lies in a matching district.
NoCellMatches ==
    \A i \in 1..Len(grid_data) :
        grid_data[i].density > 6000 => ~InFilteredDistrict(grid_data[i].district)

\* C15: with a district filter every selected and returned site lies in a
\* district whose name contains the filter (case-insensitive), top-up
\* included, and the call does not raise: a filter matching no cell ends
\* in an empty site list.
C15_FilterHonoured ==
    (Filtered /\ r_pc # "input" /\ r_pc # "prepared") =>
        /\ r_pc # "raised_AttributeError"
        /\ \A k \in 1..Len(selected) : InFilteredDistrict(selected[k].district)
        /\ \A k \in 1..Len(Returned) : InFilteredDistrict(Returned[k].district)
        /\ (NoCellMatches /\ r_pc = "done") => Len(Returned) = 0

DenseIndexes == {i \in 1..Len(grid_data) : grid_data[i].density > 6000}

\* The analysis lists hold an entry for the cell, with the distance to the
\* nearest school of the whole roster (None when no school has coordinates).
Measured(c, list) ==
    \E j \in 1..Len(list) :
        /\ list[j].lat = c.lat
        /\ list[j].lng = c.lng
        /\ list[j].nearest_school_km =
              (IF NearestSchool2(c, schools) < 0 THEN NoneV
               ELSE Some(RoundKm2(NearestSchool2(c, schools))))

\* C16: after prepare_analysis_data every grid cell denser than 6000 per
\* km2 has its nearest_school_km in the analysis data and, when farther
\* than 0.8 km from every school, is among the site candidates, however
\* many such cells the grid holds.
C16_EveryDenseCellMeasured ==
    r_pc = "prepared" =>
        \A i \in DenseIndexes :
            /\ Measured(grid_data[i], high_density_cells \o cells_without_schools)
            /\ IsFar(NearestSchool2(grid_data[i], schools))
                  => Measured(grid_data[i], cells_without_schools)

\* analysis_data['high_density_cells'] as prepare_analysis_data returned it.
PreparedHighDensity ==
    Prefix(CellsWithDistance(
               HighDensityCells(grid_data, restricted_zones, growth_factor),
               schools), 30)

CallReturned == r_pc \in {"greedy", "enrich", "done", "raised_TypeError"}

\* C17: generate_recommendations leaves analysis_data as it received it
\* (high_density_cells and cells_without_schools keep their contents), and
\* the reported cells_without_schools count is the number of cells farther
\* than 0.8 km from a school.
C17_AnalysisDataUnchanged ==
    CallReturned =>
        /\ high_density_cells = PreparedHighDensity
        /\ cells_without_schools = far_cells
        /\ r_pc = "done" =>
              Val(response).cells_without_schools = Len(far_cells)

\* density^2 * km^3 * population^2 for a distance of km hundredths of a
\* kilometre: the square of density * km ** 1.5 * population / 1000, scaled.
SquaredScore(cell, km) ==
    BigMul(BigMul(BigMul(BigMul(BigMul(BigMul(BigMul(<<1>>,
        cell.population), cell.population), cell.density), cell.density),
        km), km), km)

\* The distance the claim scores with: max(nearest_school_km, 1), an
\* unknown distance counting as 1 km.
ClaimedKm(cell) ==
    IF IsNone(cell.nearest_school_km) THEN 100
    ELSE IF Val(cell.nearest_school_km) < 100 THEN 100
    ELSE Val(cell.nearest_school_km)

\* The distance itself, an unknown or zero distance counting as 1 km.
KnownKmOrOne(cell) ==
    IF IsNone(cell.nearest_school_km) THEN 100
    ELSE IF Val(cell.nearest_school_km) = 0 THEN 100
    ELSE Val(cell.nearest_school_km)

SameScore(x, y) == ~BigLess(x, y) /\ ~BigLess(y, x)

\* The scored list has just been built and sorted; the greedy loop has not
\* looked at a cell yet.
ScoringDone == r_pc = "greedy" /\ sidx = 0

\* C18 as claimed: every scored cell carries
\* density * max(nearest_school_km, 1)^1.5 * population / 1000, so cells of
\* equal density and population with schools closer than 1 km score equal.
C18_AsClaimed ==
    ScoringDone =>
        /\ \A i \in 1..Len(scored_cells) :
              SameScore(scored_cells[i].score,
                        SquaredScore(scored_cells[i], ClaimedKm(scored_cells[i])))
        /\ \A i, j \in 1..Len(scored_cells) :
              (/\ scored_cells[i].density = scored_cells[j].density
               /\ scored_cells[i].population = scored_cells[j].population
               /\ ClaimedKm(scored_cells[i]) = 100
               /\ ClaimedKm(scored_cells[j]) = 100)
              => SameScore(scored_cells[i].score, scored_cells[j].score)

\* C18 amended: every scored cell carries
\* density * d^1.5 * population / 1000 where d is nearest_school_km itself,
\* also below 1 km, and 1 km when the distance is unknown or zero; each
\* scored cell's score is at least that of the cell after it.
C18_ScoreUsesDistanceItself ==
    ScoringDone =>
        /\ \A i \in 1..Len(scored_cells) :
              SameScore(scored_cells[i].score,
                        SquaredScore(scored_cells[i], KnownKmOrOne(scored_cells[i])))
        /\ \A i \in 1..(Len(scored_cells) - 1) :
              ~BigLess(SquaredScore(scored_cells[i],
                                    KnownKmOrOne(scored_cells[i])),
                       SquaredScore(scored_cells[i + 1],
                                    KnownKmOrOne(scored_cells[i + 1])))

\* A scored list holding two cells of equal density and population whose
\* nearest schools are at different distances below 1 km.
C18_Witness ==
    /\ ScoringDone
    /\ \E i, j \in 1..Len(scored_cells) :
          /\ scored_cells[i].density = scored_cells[j].density
          /\ scored_cells[i].population = scored_cells[j].population
          /\ ~IsNone(scored_cells[i].nearest_school_km)
          /\ ~IsNone(scored_cells[j].nearest_school_km)
          /\ Val(scored_cells[i].nearest_school_km) < 100
          /\ Val(scored_cells[j].nearest_school_km)
                < Val(scored_cells[i].nearest_school_km)

\* The tier the priority rule names for a density and a distance in
\* hundredths of a km; an unknown distance exceeds no threshold.
Tier(density, km) ==
    LET far_critical == ~IsNone(km) /\ Val(km) > 150
        far_high == ~IsNone(km) /\ Val(km) > 100
    IN  IF density > 15000 \/ far_critical THEN "critical"
        ELSE IF density > 10000 \/ far_high THEN "high"
        ELSE "medium"

LoopEnded == r_pc \in {"enrich", "done", "raised_TypeError"}

\* C19: once the greedy loop has ended every selected cell is given a
\* priority, also a cell whose distance is unknown, and the priority is
\* 'critical' when density > 15000 or distance > 1.5 km, else 'high' when
\* density > 10000 or distance > 1.0 km, else 'medium'.
C19_PriorityForEverySelected ==
    LoopEnded =>
        /\ r_pc # "raised_TypeError"
        /\ Len(base_recommendations) = Len(selected)
        /\ \A i \in 1..Len(selected) :
              base_recommendations[i].priority
                  = Tier(selected[i].density, selected[i].nearest_school_km)

\* The tiers of the sites that were built, whenever no comparison raised.
PriorityTiersWhenBuilt ==
    r_pc \in {"enrich", "done"} =>
        /\ Len(base_recommendations) = Len(selected)
        /\ \A i \in 1..Len(selected) :
              base_recommendations[i].priority
                  = Tier(selected[i].density, selected[i].nearest_school_km)

\* The projected student count of a selected cell: the cell's own count
\* when it carries a current count, else the estimate from its population.
ProjectedOf(cell) ==
    IF cell.students_current # 0 THEN cell.students_projected
    ELSE ((((cell.population * 18) \div 100) * growth_factor) \div 100)

Clamped(x, lo, hi) == IF x < lo THEN lo ELSE IF x > hi THEN hi ELSE x

\* C20: every returned site has recommended_capacity equal to its
\* projected student count clamped to [500, 1500], hence between 500 and
\* 1500, and its coverage_gap is positive only when the capacity is 1500.
C20_CapacityClamped ==
    r_pc = "done" =>
        /\ Len(Returned) = Len(selected)
        /\ \A i \in 1..Len(Returned) :
              /\ Returned[i].recommended_capacity
                    = Clamped(ProjectedOf(selected[i]), 500, 1500)
              /\ Returned[i].recommended_capacity >= 500
              /\ Returned[i].recommended_capacity <= 1500
              /\ Returned[i].coverage_gap > 0
                    => Returned[i].recommended_capacity = 1500

\* A response with one site held at the ceiling with a positive coverage
\* gap and one site raised to the floor.
C20_Witness ==
    /\ r_pc = "done"
    /\ \E i, j \in 1..Len(Returned) :
          /\ ProjectedOf(selected[i]) > 1500
          /\ Returned[i].recommended_capacity = 1500
          /\ Returned[i].coverage_gap > 0
          /\ ProjectedOf(selected[j]) < 500
          /\ Returned[j].recommended_capacity = 500

\* The sites are numbered 1..n in the order of selection, no more than
\* five, each with a score at least that of the next.
SitesNumberedByScore ==
    /\ Len(base_recommendations) = Len(selected)
    /\ Len(base_recommendations) <= 5
    /\ \A i \in 1..Len(base_recommendations) : base_recommendations[i].id = i
    /\ \A i \in 1..(Len(selected) - 1) :
          ~BigLess(selected[i].score, selected[i + 1].score)

\* C21: the selector returns at most 5 sites, in non-increasing score
\* order with ids 1..n in that order, and at least one site whenever the
\* candidate list is non-empty.
C21_UpToFiveByScore ==
    LoopEnded =>
        /\ r_pc # "raised_TypeError"
        /\ SitesNumberedByScore
        /\ Len(candidate_cells) > 0 => Len(base_recommendations) >= 1

\* The same, for the runs in which the selector returned.
SitesWhenReturned ==
    r_pc \in {"enrich", "done"} =>
        /\ SitesNumberedByScore
        /\ Len(candidate_cells) > 0 => Len(base_recommendations) >= 1

Kept(i) == \E k \in 1..Len(selected) : selected[k] = scored_cells[i]

NotLower(a, b) == ~BigLess(a.score, b.score)

\* Candidate i lies closer than 0.6 km to a selected site scored at least
\* as high, or five sites scored at least as high were selected.
LeftOutForCause(i) ==
    \/ \E k \in 1..Len(selected) :
          /\ ~Apart(selected[k], scored_cells[i])
          /\ NotLower(selected[k], scored_cells[i])
    \/ /\ Len(selected) = 5
       /\ \A k \in 1..Len(selected) : NotLower(selected[k], scored_cells[i])

\* C22: when the greedy loop has ended, a candidate is left out only if it
\* lies closer than 0.6 km to a selected site of equal or higher score or
\* five sites of equal or higher score were selected; a candidate of the
\* highest score is selected first; two different candidates closer than
\* 0.6 km are never both kept, and when they are the only two the one kept
\* is the higher-scored.
C22_GreedyMaximal ==
    LoopEnded =>
        /\ \A i \in 1..Len(scored_cells) : Kept(i) \/ LeftOutForCause(i)
        /\ Len(scored_cells) > 0 =>
              /\ Len(selected) > 0
              /\ \A i \in 1..Len(scored_cells) :
                    NotLower(selected[1], scored_cells[i])
        /\ \A i, j \in 1..Len(scored_cells) :
              (/\ scored_cells[i] # scored_cells[j]
               /\ ~Apart(scored_cells[i], scored_cells[j]))
              => ~(Kept(i) /\ Kept(j))
        /\ (/\ Len(scored_cells) = 2
            /\ scored_cells[1] # scored_cells[2]
            /\ ~Apart(scored_cells[1], scored_cells[2]))
           => /\ selected = <<scored_cells[1]>>
              /\ NotLower(scored_cells[1], scored_cells[2])

\* A finished loop that kept five sites, passed over a candidate closer
\* than 0.6 km to a kept one, and never reached the lower-scored rest.
C22_Witness ==
    /\ LoopEnded
    /\ Len(selected) = 5
    /\ sidx < Len(scored_cells)
    /\ \E i \in 1..sidx :
          /\ ~Kept(i)
          /\ \E k \in 1..Len(selected) : ~Apart(selected[k], scored_cells[i])
    /\ \E i, j \in 1..Len(scored_cells) :
          BigLess(scored_cells[j].score, scored_cells[i].score)

\* A finished loop over exactly two candidates closer than 0.6 km, of
\* different scores.
TwoCloseCandidates ==
    /\ LoopEnded
    /\ Len(scored_cells) = 2
    /\ ~Apart(scored_cells[1], scored_cells[2])
    /\ BigLess(scored_cells[2].score, scored_cells[1].score)

\* How many times the nearest-district lookup ran for the cell at key.
LookupsFor(key) == Cardinality({i \in 1..Len(lookup_log) : lookup_log[i] = key})

\* The district the lookup gives for the first building placed in the cell.
FirstLookup(key) ==
    LET first == CHOOSE i \in 1..bidx :
                    /\ GridKey(buildings[i].lat, buildings[i].lng) = key
                    /\ \A j \in 1..(i - 1) :
                          GridKey(buildings[j].lat, buildings[j].lng) # key
    IN  _find_nearest_district(buildings[first].lat, buildings[first].lng,
                               DistrictList(districts))

\* C23: with districts supplied, the lookup has run exactly once for every
\* cell of the grid, and the cell's district is the one the lookup gave for
\* the first building placed in it, also when that was no district.
C23_LookupOncePerCell ==
    HasDistricts(districts) =>
        \A k \in 1..Len(grid) :
            /\ LookupsFor(grid[k].key) = 1
            /\ grid[k].district = FirstLookup(grid[k].key)

\* The same for the cells whose first lookup found a district.
LookupOnceWhenFound ==
    HasDistricts(districts) =>
        \A k \in 1..Len(grid) :
            ~IsNone(FirstLookup(grid[k].key)) =>
                /\ LookupsFor(grid[k].key) = 1
                /\ grid[k].district = FirstLookup(grid[k].key)

LookupReturned == look_pc = "returned"

CentreDist2(i) ==
    ((look_point[1] - look_districts[i].lat) * (look_point[1] - look_districts[i].lat))
    + ((look_point[2] - look_districts[i].lng) * (look_point[2] - look_districts[i].lng))

\* Some ring of district i contains the point.
PolygonHolds(i) ==
    \E k \in 1..Len(look_districts[i].geometry) :
        _point_in_polygon(look_point[1], look_point[2],
                          look_districts[i].geometry[k])

\* District i contains the point: by a ring, or, having no geometry, by
\* lying within 2.5 km of its centre.
DistrictHolds(i) ==
    IF Len(look_districts[i].geometry) = 0
    THEN CentreDist2(i) <= 625
    ELSE PolygonHolds(i)

Indexes == 1..Len(look_districts)

NearestCentres ==
    {i \in Indexes : \A j \in Indexes : CentreDist2(i) <= CentreDist2(j)}

\* C24 as claimed: a district whose polygon contains the point is returned
\* whenever some polygon contains it; otherwise the district of the
\* nearest centre if within 5 km; None exactly when no polygon contains the
\* point and every centre is farther than 5 km.
C24_AsClaimed ==
    LookupReturned =>
        /\ (\E i \in Indexes : PolygonHolds(i)) =>
              \E i \in Indexes :
                  PolygonHolds(i) /\ look_result = Some(look_districts[i].name)
        /\ (~\E i \in Indexes : PolygonHolds(i)) =>
              \/ \E i \in NearestCentres :
                    /\ CentreDist2(i) <= 2500
                    /\ look_result = Some(look_districts[i].name)
              \/ /\ \A i \in Indexes : CentreDist2(i) > 2500
                 /\ IsNone(look_result)

\* C24 amended: the first district of the list that contains the point (by
\* a ring, or within 2.5 km of the centre when it has no geometry) is
\* returned; when none contains it, the first district of the nearest
\* centre if that is within 5 km; None exactly when no district contains
\* the point and every centre is farther than 5 km.
C24_FirstHolderElseNearest ==
    LookupReturned =>
        /\ \A i \in Indexes :
              (DistrictHolds(i) /\ \A j \in 1..(i - 1) : ~DistrictHolds(j))
              => look_result = Some(look_districts[i].name)
        /\ (~\E i \in Indexes : DistrictHolds(i)) =>
              \A i \in NearestCentres :
                  (\A j \in 1..(i - 1) : j \notin NearestCentres) =>
                      look_result = IF CentreDist2(i) <= 2500
                                    THEN Some(look_districts[i].name)
                                    ELSE NoneV
        /\ IsNone(look_result) <=>
              /\ ~\E i \in Indexes : DistrictHolds(i)
              /\ \A i \in Indexes : CentreDist2(i) > 2500

\* A lookup that returned a district without geometry holding the point
\* within 2.5 km, listed before a district whose ring contains the point.
C24_Witness ==
    /\ LookupReturned
    /\ \E i, j \in Indexes :
          /\ i < j
          /\ Len(look_districts[i].geometry) = 0
          /\ DistrictHolds(i)
          /\ PolygonHolds(j)
          /\ look_result = Some(look_districts[i].name)

\* Population and building count of district n, summed over the real
\* cells of the returned list.
PopulationIn(n) ==
    SumSeq([i \in 1..Len(grid_cells) |->
               IF ~grid_cells[i].interpolated /\ grid_cells[i].district = Some(n)
               THEN grid_cells[i].population ELSE 0])

BuildingsIn(n) ==
    SumSeq([i \in 1..Len(grid_cells) |->
               IF ~grid_cells[i].interpolated /\ grid_cells[i].district = Some(n)
               THEN grid_cells[i].buildings_count ELSE 0])

\* 30% of population / max(0.05 * buildings, 10), truncated.
ThirtyPercentOfAverage(population, count) ==
    (6 * population) \div (IF count > 200 THEN count ELSE 200)

AtLeast100(x) == IF x < 100 THEN 100 ELSE x

InterpolatedShape(c) ==
    /\ c.buildings_count = 0
    /\ ~IsNone(c.district)

RealCellsUnflagged ==
    /\ \A i \in 1..Len(grid_cells) :
          grid_cells[i].buildings_count > 0 => ~grid_cells[i].interpolated
    /\ \A k \in 1..Len(grid) :
          \E i \in 1..Len(grid_cells) :
              /\ <<grid_cells[i].lat, grid_cells[i].lng>> = grid[k].key
              /\ ~grid_cells[i].interpolated

\* C25 as claimed: every interpolated cell has density
\* max(100, 30% of its district's average density), the average being the
\* district's population over its approximated area; it is flagged, has
\* no buildings and a district; no real cell is flagged.
C25_AsClaimed ==
    GridReturned =>
        /\ \A i \in 1..Len(grid_cells) :
              grid_cells[i].interpolated =>
                  /\ InterpolatedShape(grid_cells[i])
                  /\ grid_cells[i].density =
                        AtLeast100(ThirtyPercentOfAverage(
                            PopulationIn(Val(grid_cells[i].district)),
                            BuildingsIn(Val(grid_cells[i].district))))
        /\ RealCellsUnflagged

\* C25 amended: as claimed for a district with population; for a district
\* without population the average is taken as 500, so the density is 150.
\* An average of 1000 gives 300, an average below 334 gives 100.
C25_InterpolatedDensity ==
    GridReturned =>
        /\ \A i \in 1..Len(grid_cells) :
              grid_cells[i].interpolated =>
                  /\ InterpolatedShape(grid_cells[i])
                  /\ grid_cells[i].density =
                        IF PopulationIn(Val(grid_cells[i].district)) > 0
                        THEN AtLeast100(ThirtyPercentOfAverage(
                                 PopulationIn(Val(grid_cells[i].district)),
                                 BuildingsIn(Val(grid_cells[i].district))))
                        ELSE 150
        /\ RealCellsUnflagged
        /\ EstimatedDensity([population |-> 10000, buildings |-> 1]) = 300
        /\ EstimatedDensity([population |-> 3330, buildings |-> 1]) = 100
        /\ EstimatedDensity([population |-> 1, buildings |-> 1]) = 100

\* A returned grid with a real cell, an interpolated cell in a district
\* that has population and an interpolated cell in a district that has
\* none.
C25_Witness ==
    /\ GridReturned
    /\ \E i, j, k \in 1..Len(grid_cells) :
          /\ ~grid_cells[i].interpolated
          /\ grid_cells[j].interpolated
          /\ PopulationIn(Val(grid_cells[j].district)) > 0
          /\ grid_cells[k].interpolated
          /\ PopulationIn(Val(grid_cells[k].district)) = 0

\* The band of the ascending threshold table.
BandOf(density) ==
    IF density < 1500 THEN "green"
    ELSE IF density < 6000 THEN "yellow"
    ELSE IF density < 10000 THEN "orange"
    ELSE IF density < 20000 THEN "red"
    ELSE "purple"

\* C26: every cell of the returned grid, real or interpolated, carries the
\* colour band the threshold table assigns to its density.
C26_ColorFollowsTable ==
    GridReturned =>
        \A i \in 1..Len(grid_cells) :
            grid_cells[i].color = BandOf(grid_cells[i].density)

\* The same for the real cells alone.
RealColorFollowsTable ==
    GridReturned =>
        \A i \in 1..Len(grid_cells) :
            ~grid_cells[i].interpolated =>
                grid_cells[i].color = BandOf(grid_cells[i].density)

\* The tiered reference, step 1: the floor count, inferred when absent.
RefFloors(building_type, levels, area) ==
    IF ~IsNone(levels) THEN Val(levels)
    ELSE CASE building_type = "apartments" ->
                 (IF area > 1500 THEN 12 ELSE IF area > 800 THEN 9
                  ELSE IF area > 400 THEN 5 ELSE 4)
           [] building_type \in {"house", "residential"} ->
                 (IF area > 200 THEN 2 ELSE 1)
           [] OTHER ->
                 (IF area < 200 THEN 1 ELSE IF area < 400 THEN 2 ELSE 4)

\* Step 2: the category.
RefCategory(floors, tags) ==
    IF floors <= 2 THEN "private"
    ELSE IF ~IsNone(tags) /\ HasLuxuryWord(Lower(Val(tags))) THEN "elite"
    ELSE IF floors >= 12 THEN "high_rise"
    ELSE IF floors >= 9 THEN "soviet_high"
    ELSE IF floors >= 6 THEN "mid_rise"
    ELSE IF floors >= 4 THEN "soviet"
    ELSE "low_rise"

\* Steps 3 and 4: the occupants, between 2 and 800.
RefOccupants(category, floors, area) ==
    LET raw == IF category = "private"
               THEN (IF area < 60 THEN 3 ELSE IF area < 100 THEN 4
                     ELSE IF area < 150 THEN 5 ELSE IF area < 250 THEN 6
                     ELSE 7)
               ELSE (area * floors * 72)
                       \div (100 * (IF category = "elite" THEN 30
                                    ELSE IF category \in {"high_rise", "low_rise"}
                                    THEN 24 ELSE 22))
    IN  IF raw < 2 THEN 2 ELSE IF raw > 800 THEN 800 ELSE raw

RefTriple(building_type, levels, area, tags) ==
    LET floors == RefFloors(building_type, levels, area)
        category == RefCategory(floors, tags)
    IN  [category |-> category, levels |-> floors,
         population |-> RefOccupants(category, floors, area)]

\* The floor count a call site hands over: the parsed entry, or None.
PassedLevels(lv) ==
    IF Truthy(lv) /\ IntOfFloat(lv).ok THEN Some(IntOfFloat(lv).val) ELSE NoneV

\* C27: calculate_building_population returns the triple of the tiered
\* reference for the arguments each call site passes; apartments without
\* floors on 1000 m2 give (soviet_high, 9, 294), a house of 1 floor on
\* 120 m2 gives (private, 1, 5).
C27_MatchesReference ==
    /\ EstReturned =>
          grid_triple = RefTriple(GetOr(est_in.building_type, "yes"),
                                  PassedLevels(est_in.levels),
                                  GetOr(est_in.area_m2, 100), est_in.tags)
    /\ est_pc = "done" =>
          view_triple = RefTriple(GetOr(est_in.building_type, "residential"),
                                  PassedLevels(est_in.levels),
                                  GetOr(est_in.area_m2, 100), est_in.tags)
    /\ calculate_building_population("apartments", NoneV, 1000, NoneV)
          = [category |-> "soviet_high", levels |-> 9, population |-> 294]
    /\ calculate_building_population("house", Some(1), 120, NoneV)
          = [category |-> "private", levels |-> 1, population |-> 5]

\* Apartments without floors on 1000 m2, estimated at both call sites as
\* (soviet_high, 9, 294).
C27_Witness ==
    /\ est_pc = "done"
    /\ est_in.building_type = Some("apartments")
    /\ est_in.levels.kind = "none"
    /\ est_in.area_m2 = Some(1000)
    /\ IsNone(est_in.tags)
    /\ grid_triple = [category |-> "soviet_high", levels |-> 9, population |-> 294]
    /\ view_triple = grid_triple

\* The grid dict after the building loop has run over the first n records
\* of bs (none of which raises).
RECURSIVE GridAfter(_, _, _)
GridAfter(bs, n, d) ==
    IF n = 0 THEN <<>>
    ELSE LET g == GridAfter(bs, n - 1, d)
             b == bs[n]
             key == GridKey(b.lat, b.lng)
             g1 == IF IndexOfKey(g, key) = 0 THEN Append(g, NewCell(key)) ELSE g
             k == IndexOfKey(g1, key)
         IN  [g1 EXCEPT ![k] = AddBuilding(@, b, GridSiteTriple(b), d)]

\* The real cells create_population_grid returns for the list bs.
RealCellsFor(bs, d) ==
    LET g == GridAfter(bs, Len(bs), d)
    IN  RealCells(g, SumSeq([k \in 1..Len(g) |-> g[k].population]))

Orders(n) == {p \in [1..n -> 1..n] : \A i, j \in 1..n : i # j => p[i] # p[j]}

Reordered(p) == [i \in 1..Len(buildings) |-> buildings[p[i]]]

SameNumbers(a, b) ==
    /\ a.lat = b.lat
    /\ a.lng = b.lng
    /\ a.population = b.population
    /\ a.density = b.density
    /\ a.buildings_count = b.buildings_count

\* C28: for every reordering of the building list the grid has the same
\* real cells, each with the same population, density, building count,
\* dominant category and district.
C28_OrderIndependent ==
    GridReturned =>
        \A p \in Orders(Len(buildings)) :
            LET other == RealCellsFor(Reordered(p), districts)
            IN  \A i \in RealIndexes :
                    \E j \in 1..Len(other) :
                        /\ SameNumbers(grid_cells[i], other[j])
                        /\ grid_cells[i].dominant_category
                              = other[j].dominant_category
                        /\ grid_cells[i].district = other[j].district

\* Population, density and building count alone.
NumbersOrderIndependent ==
    GridReturned =>
        \A p \in Orders(Len(buildings)) :
            LET other == RealCellsFor(Reordered(p), districts)
            IN  \A i \in RealIndexes :
                    \E j \in 1..Len(other) : SameNumbers(grid_cells[i], other[j])

\* Some cell handed to the district filter has no district.
NullDistrictListed ==
    \E i \in 1..Len(grid_data) :
        grid_data[i].density > 6000 /\ IsNone(grid_data[i].district)

\* C29: with a district filter generate_recommendations does not raise on
\* a cell whose district is null; such a cell is left out as not matching.
C29_NullDistrictNotMatching ==
    (Filtered /\ NullDistrictListed) =>
        /\ r_pc # "raised_AttributeError"
        /\ r_pc \notin {"input", "prepared"} =>
              \A k \in 1..Len(selected) : ~IsNone(selected[k].district)

\* Without the filter, or with a district on every cell, the filter step
\* never raises.
FilterRaisesOnlyOnNull ==
    r_pc = "raised_AttributeError" => (Filtered /\ NullDistrictListed)

\* The population of the real cells of the returned list.
RealPopulation ==
    SumSeq([i \in 1..Len(grid_cells) |->
               IF grid_cells[i].interpolated THEN 0
               ELSE grid_cells[i].population])

RECURSIVE SumOfDistricts(_)
SumOfDistricts(names) ==
    IF names = {} THEN 0
    ELSE LET n == CHOOSE x \in names : TRUE
         IN  districts_population[n].population + SumOfDistricts(names \ {n})

\* What the totals of a result have in common under both bounds.
TotalsOverRealCells ==
    /\ total_population = RealPopulation
    /\ stats.total_population = total_population
    /\ total_population <= TOTAL_TARGET_POPULATION
    /\ SumOfDistricts(DOMAIN districts_population) <= total_population
    /\ \A n \in DOMAIN districts_population :
           districts_population[n].population = PopulationIn(n)

Shortfall == TOTAL_TARGET_POPULATION - total_population

\* C30 as stated: total_population is the sum over the real cells only,
\* is at most 1,350,000 and misses it by less than the number of real
\* cells when there is a building; the district populations sum to at
\* most total_population.
C30_AsClaimed ==
    GridReturned =>
        /\ TotalsOverRealCells
        /\ Len(buildings) > 0 => Shortfall < Cardinality(RealIndexes)

\* C30: the same, with a shortfall of at most the number of real cells.
C30_TotalsOverRealCells ==
    GridReturned =>
        /\ TotalsOverRealCells
        /\ Len(buildings) > 0 => Shortfall <= Cardinality(RealIndexes)

\* A result with districts and an interpolated cell of positive population
\* whose total misses the target by exactly the number of real cells.
C30_Witness ==
    /\ GridReturned
    /\ Len(buildings) > 0
    /\ Shortfall = Cardinality(RealIndexes)
    /\ \E n \in DOMAIN districts_population :
           districts_population[n].population > 0
    /\ \E i \in 1..Len(grid_cells) :
           grid_cells[i].interpolated /\ grid_cells[i].population > 0

====
